---- MODULE Spec2Model ----
(***************************************************************************)
(* Model of the Mitsubishi AE200 integration's device communication client *)
(* (custom_components/mitsubishi_ae200/mitsubishi_ae200.py).               *)
(*                                                                         *)
(* Strings that the code parses or compares are sequences of one-character *)
(* strings, so that str(), float() and == are computed, not assumed.       *)
(* Numbers (Python floats) are integers counting hundredths; the value     *)
(* sets below only hold multiples of 0.25, which binary floating point     *)
(* represents exactly, so the exact arithmetic here is the code's.         *)
(***************************************************************************)
EXTENDS Integers, Sequences, FiniteSets, TLC

\* ------------------------------------------------------------------------
\* Bounds of the model
\* ------------------------------------------------------------------------
\* largest max_retries a caller passes (3 is the default of the signature)
MaxRetriesArg == 3
\* largest max_retries in the side-by-side model of two verified writes
MaxPairRetries == 2

\* ------------------------------------------------------------------------
\* Python values
\* ------------------------------------------------------------------------
\* Python's None; not a string of one-character elements
None == <<"<None>">>

DigitChars == <<"0", "1", "2", "3", "4", "5", "6", "7", "8", "9">>

IsDigit(c) == \E i \in 1..10 : DigitChars[i] = c

DigitValue(c) == (CHOOSE i \in 1..10 : DigitChars[i] = c) - 1

AllDigits(s) == \A i \in 1..Len(s) : IsDigit(s[i])

\* value of a string of decimal digits ("" is 0)
RECURSIVE DigitsValue(_)
DigitsValue(s) ==
    IF s = <<>> THEN 0
    ELSE DigitsValue(SubSeq(s, 1, Len(s) - 1)) * 10 + DigitValue(s[Len(s)])

\* decimal digits of a natural number
RECURSIVE NatToStr(_)
NatToStr(n) ==
    IF n < 10 THEN <<DigitChars[n + 1]>>
    ELSE NatToStr(n \div 10) \o <<DigitChars[(n % 10) + 1]>>

\* a written value is a str or a float (hundredths)
StrValue(s) == [type |-> "str", s |-> s]
FloatValue(h) == [type |-> "float", h |-> h]

Abs(x) == IF x < 0 THEN -x ELSE x

\* str(x) for a float x = h/100: shortest repr, always with a fraction
FloatRepr(h) ==
    LET a == Abs(h)
        frac == a % 100
        fracStr == IF frac % 10 = 0 THEN <<DigitChars[(frac \div 10) + 1]>>
                   ELSE <<DigitChars[(frac \div 10) + 1], DigitChars[(frac % 10) + 1]>>
    IN (IF h < 0 THEN <<"-">> ELSE <<>>) \o NatToStr(a \div 100) \o <<".">> \o fracStr

\* str(expected_value)
PyStr(v) == IF v.type = "float" THEN FloatRepr(v.h) ELSE v.s

\* truth value of an optional string: None and "" are falsy
Truthy(s) == s # None /\ s # <<>>

NaN == [ok |-> TRUE, nan |-> TRUE, h |-> 0]
ValueError == [ok |-> FALSE, nan |-> FALSE, h |-> 0]

\* float(s) for the decimal grammar  [+-] digits [. digits]  (at least one
\* digit, at most two fractional digits) and the literal nan; every other
\* string of the alphabet raises ValueError
ParseFloat(s) ==
    LET signed == s # <<>> /\ s[1] \in {"+", "-"}
        body == IF signed THEN SubSeq(s, 2, Len(s)) ELSE s
        dots == {i \in 1..Len(body) : body[i] = "."}
        dot == IF dots = {} THEN Len(body) + 1
               ELSE CHOOSE i \in dots : \A j \in dots : i <= j
        intPart == SubSeq(body, 1, dot - 1)
        fracPart == SubSeq(body, dot + 1, Len(body))
        fracValue == IF Len(fracPart) = 1 THEN DigitsValue(fracPart) * 10
                     ELSE DigitsValue(fracPart)
        magnitude == DigitsValue(intPart) * 100 + fracValue
    IN IF body = <<"n", "a", "n">> THEN NaN
       ELSE IF /\ AllDigits(intPart)
               /\ AllDigits(fracPart)
               /\ Len(intPart) + Len(fracPart) >= 1
               /\ Len(fracPart) <= 2
            THEN [ok |-> TRUE, nan |-> FALSE,
                  h |-> IF signed /\ s[1] = "-" THEN -magnitude ELSE magnitude]
            ELSE ValueError

\* ------------------------------------------------------------------------
\* sendAndVerifyAsync: comparison of one written key with the read-back
\* ------------------------------------------------------------------------
TempKeys == {"SetTemp", "SetTemp1", "SetTemp2"}

\* device_info.get(key)
DictGet(d, key) == IF key \in DOMAIN d THEN d[key] ELSE None

\* d.get(key, default_value)
DictGet2(d, key, default_value) == IF key \in DOMAIN d THEN d[key] ELSE default_value

\* changed: a tolerance of one degree
WithinToleranceOfOne(e, a) == ~e.nan /\ ~a.nan /\ Abs(e.h - a.h) <= 100

\* abs(expected_float - actual_float) <= 0.5; false when either is nan
WithinTolerance(e, a) == ~e.nan /\ ~a.nan /\ Abs(e.h - a.h) <= 50

\* changed: the tolerance branch is taken for every key
KeyVerifiedToleranceForAllKeys(key, expected_value, device_info) ==
    LET actual_value == DictGet(device_info, key)
        expected_str == PyStr(expected_value)
        actual_str == IF actual_value # None THEN actual_value ELSE None
        expected_float == ParseFloat(expected_str)
        actual_float == ParseFloat(actual_str)
    IN IF /\ Truthy(actual_str)
          /\ Truthy(expected_str)
          /\ expected_float.ok
          /\ actual_float.ok
          /\ ~expected_float.nan /\ ~actual_float.nan
          /\ Abs(expected_float.h - actual_float.h) <= 50
       THEN TRUE
       ELSE actual_str = expected_str

\* one iteration of the loop over attributes.items(): TRUE when the
\* iteration reaches a continue, FALSE when it sets verification_failed
KeyVerified(key, expected_value, device_info) ==
    LET actual_value == DictGet(device_info, key)
        expected_str == PyStr(expected_value)
        actual_str == IF actual_value # None THEN actual_value ELSE None
        expected_float == ParseFloat(expected_str)
        actual_float == ParseFloat(actual_str)
    IN IF /\ key \in TempKeys
          /\ Truthy(actual_str)
          /\ Truthy(expected_str)
          /\ expected_float.ok
          /\ actual_float.ok
          /\ WithinTolerance(expected_float, actual_float)
       THEN TRUE
       ELSE actual_str = expected_str

\* changed: a heating setpoint is also refused unless the unit reports HEAT
VerificationFailedSemantic(attributes, device_info) ==
    \/ \E key \in DOMAIN attributes : ~KeyVerified(key, attributes[key], device_info)
    \/ /\ "SetTemp2" \in DOMAIN attributes
       /\ DictGet(device_info, "Mode") # <<"H", "E", "A", "T">>

\* verification_failed after the loop; the loop stops at the first failing
\* key and has no other effect, so the order of the keys does not matter
VerificationFailed(attributes, device_info) ==
    \E key \in DOMAIN attributes : ~KeyVerified(key, attributes[key], device_info)

\* ------------------------------------------------------------------------
\* XML documents (xml.etree.ElementTree)
\* ------------------------------------------------------------------------
\* an element: tag, attribute dict, text (None when absent), child elements
El(tag, attrib, text, children) ==
    [tag |-> tag, attrib |-> attrib, text |-> text, children |-> children]

EmptyDict == [k \in {} |-> None]

\* a received frame: a well-formed document, or text ET.fromstring rejects
XmlFrame(root) == [wellFormed |-> TRUE, root |-> root]
NotXml == [wellFormed |-> FALSE, root |-> El("", EmptyDict, None, <<>>)]

\* proper descendants of the elements of a child list, in document order
RECURSIVE Descendants(_)
Descendants(children) ==
    IF children = <<>> THEN <<>>
    ELSE <<Head(children)>> \o Descendants(Head(children).children)
                            \o Descendants(Tail(children))

SelectTag(elements, tag) == SelectSeq(elements, LAMBDA e : e.tag = tag)

\* an optional element (None or an element) is a sequence of at most one
Optional(found) == IF found = <<>> THEN <<>> ELSE <<Head(found)>>

\* root.find('.//tag'): first proper descendant with the tag, if any
FindDescendant(root, tag) == Optional(SelectTag(Descendants(root.children), tag))

\* children, in order, of every element of a list
RECURSIVE ChildrenOf(_)
ChildrenOf(elements) ==
    IF elements = <<>> THEN <<>>
    ELSE Head(elements).children \o ChildrenOf(Tail(elements))

\* root.findall('./t1/t2/...'): the elements the path selects, document order
RECURSIVE FindAllPath(_, _)
FindAllPath(elements, path) ==
    IF path = <<>> THEN elements
    ELSE FindAllPath(SelectTag(ChildrenOf(elements), Head(path)), Tail(path))

\* root.find('./t1/t2/...')
FindPath(root, path) == Optional(FindAllPath(<<root>>, path))

\* ------------------------------------------------------------------------
\* What the controller and the network can do to one exchange
\* ------------------------------------------------------------------------
\* the websocket events that decide an operation: the connection is
\* refused, send() raises, recv() raises ConnectionClosed, no frame arrives
\* within _response_timeout, or a frame arrives
Event(kind, frame) == [kind |-> kind, frame |-> frame]
ConnectFailed == Event("connect_failed", NotXml)
SendFailed == Event("send_failed", NotXml)
Closed == Event("closed", NotXml)
Timeout == Event("timeout", NotXml)
Received(frame) == Event("frame", frame)

\* strings of the protocol
sON == <<"O", "N">>
sOFF == <<"O", "F", "F">>
sCOOL == <<"C", "O", "O", "L">>
sHEAT == <<"H", "E", "A", "T">>
sX == <<"X">>
sBoom == <<"b", "o", "o", "m">>
sUnknownError ==
    <<"U", "n", "k", "n", "o", "w", "n", " ", "e", "r", "r", "o", "r">>

Packet(children) == El("Packet", EmptyDict, None, children)

\* responses to a setRequest: no acknowledgement element, <Success/>, and
\* an <Error> element (directly under Packet or inside DatabaseManager, with
\* or without text and Message attribute, with or without <Success/> too)
ErrorElements ==
    { El("Error", attrib, text, <<>>) :
        attrib \in {EmptyDict, [Message |-> sX]}, text \in {None, sBoom} }

SuccessElement == El("Success", EmptyDict, None, <<>>)

SetResponseDocs ==
    LET tails == {<<>>, <<SuccessElement>>}
    IN { Packet(<<El("DatabaseManager", EmptyDict, None, <<>>)>> \o tail) :
           tail \in tails }
       \cup { Packet(<<e>> \o tail) : e \in ErrorElements, tail \in tails }
       \cup { Packet(tail \o <<El("DatabaseManager", EmptyDict, None, <<e>>)>>) :
                e \in ErrorElements, tail \in tails }

SetFrames == {NotXml} \cup {XmlFrame(d) : d \in SetResponseDocs}

\* attribute dicts of an <Mnet> node of a detail response
DictsOver(keys, values) ==
    UNION { [ks -> values] : ks \in SUBSET keys }

Merge(d1, d2) == [k \in DOMAIN d1 \cup DOMAIN d2 |->
                    IF k \in DOMAIN d1 THEN d1[k] ELSE d2[k]]

DetailDoc(mnets) == Packet(<<El("DatabaseManager", EmptyDict, None, mnets)>>)

Mnet(attrib) == El("Mnet", attrib, None, <<>>)

\* detail responses of other shapes: two <Mnet> nodes, an <Mnet> node in the
\* second of two <DatabaseManager> elements, and <Mnet> nodes that are not
\* children of a <DatabaseManager> (beside it, and one level further down)
OddDetailDocs ==
    LET first == [Mode |-> <<"C", "O", "O", "L">>, SetTemp1 |-> <<"2", "4", ".", "0">>]
        second == [Mode |-> <<"H", "E", "A", "T">>]
        dm(children) == El("DatabaseManager", EmptyDict, None, children)
    IN { DetailDoc(<<Mnet(first), Mnet(second)>>),
         Packet(<<dm(<<>>), dm(<<Mnet(second)>>)>>),
         Packet(<<Mnet(second), dm(<<>>)>>),
         Packet(<<dm(<<El("ControlGroup", EmptyDict, None, <<Mnet(first)>>)>>)>>) }

\* detail responses: one <Mnet> node with the given attributes, no <Mnet>
\* node under DatabaseManager, or a frame that is not XML
DetailFrames(infos) ==
    {NotXml, XmlFrame(DetailDoc(<<>>))}
    \cup {XmlFrame(DetailDoc(<<Mnet(i)>>)) : i \in infos}
    \cup {XmlFrame(d) : d \in OddDetailDocs}

MnetRecord(attrib) == El("MnetRecord", attrib, None, <<>>)

DiscoveryDoc(records) ==
    Packet(<<El("DatabaseManager", EmptyDict, None,
             <<El("ControlGroup", EmptyDict, None,
                  <<El("MnetList", EmptyDict, None, records)>>)>>)>>)

RecordAttribs ==
    { [Group |-> <<"1">>, GroupNameWeb |-> <<"L">>],
      [Group |-> <<"6">>, GroupNameWeb |-> <<"B">>],
      [Group |-> <<"7">>],
      [Group |-> <<>>, GroupNameWeb |-> <<"E">>] }

\* a response with one record in the list and one beside the ControlGroup
StrayRecordDoc ==
    Packet(<<El("DatabaseManager", EmptyDict, None,
             <<MnetRecord([Group |-> <<"9">>, GroupNameWeb |-> <<"S">>]),
               El("ControlGroup", EmptyDict, None,
                  <<El("MnetList", EmptyDict, None,
                       <<MnetRecord([Group |-> <<"1">>, GroupNameWeb |-> <<"L">>])>>)>>)>>)>>)

DiscoveryFrames ==
    {NotXml, XmlFrame(DiscoveryDoc(<<>>))}
    \cup {XmlFrame(DiscoveryDoc(<<MnetRecord(a)>>)) : a \in RecordAttribs}
    \cup {XmlFrame(DiscoveryDoc(<<MnetRecord(a), MnetRecord(b)>>)) :
            a \in RecordAttribs, b \in RecordAttribs}
    \cup {XmlFrame(StrayRecordDoc)}

\* attribute sets written and read back in the client model
s24 == <<"2", "4">>
s24_0 == <<"2", "4", ".", "0">>
s24_5 == <<"2", "4", ".", "5">>
s26 == <<"2", "6">>

Writes ==
    { Merge(a, b) :
        a \in DictsOver({"SetTemp1"}, {FloatValue(2400), StrValue(s24)}),
        b \in DictsOver({"Mode"}, {StrValue(sCOOL)}) }

ReadBacks ==
    { Merge(a, b) :
        a \in DictsOver({"SetTemp1"}, {s24_0, s24_5, s26}),
        b \in DictsOver({"Mode"}, {sCOOL, sHEAT}) }

ClientFrames(name) ==
    CASE name = "sendAsync" -> SetFrames
      [] name = "getDeviceInfoAsync" -> DetailFrames(ReadBacks)
      [] name = "getDevicesAsync" -> DiscoveryFrames

\* ------------------------------------------------------------------------
\* What each client operation makes of the exchange
\* ------------------------------------------------------------------------
Returns(value) == [raised |-> FALSE, value |-> value, error_msg |-> None]
Raises == [raised |-> TRUE, value |-> None, error_msg |-> None]

\* changed: the Success element is looked for before the Error element
SendAsyncOutcomeSuccessFirst(event) ==
    LET root == event.frame.root
        error_node == FindDescendant(root, "Error")
        success_node == FindDescendant(root, "Success")
    IN IF event.kind \in {"connect_failed", "send_failed", "closed"}
       THEN Returns(FALSE)
       ELSE IF event.kind = "timeout" THEN Returns(TRUE)
       ELSE IF ~event.frame.wellFormed THEN Returns(TRUE)
       ELSE IF success_node # <<>> THEN Returns(TRUE)
       ELSE IF error_node # <<>>
            THEN [raised |-> FALSE, value |-> FALSE,
                  error_msg |-> IF Truthy(error_node[1].text)
                                THEN error_node[1].text ELSE sUnknownError]
       ELSE Returns(TRUE)

\* changed: a response timeout is a failure, as it is for the reads
SendAsyncOutcomeTimeoutFails(event) ==
    LET root == event.frame.root
        error_node == FindDescendant(root, "Error")
    IN IF event.kind \in {"connect_failed", "send_failed", "closed", "timeout"}
       THEN Returns(FALSE)
       ELSE IF ~event.frame.wellFormed THEN Returns(TRUE)
       ELSE IF error_node # <<>>
            THEN [raised |-> FALSE, value |-> FALSE,
                  error_msg |-> IF Truthy(error_node[1].text)
                                THEN error_node[1].text ELSE sUnknownError]
       ELSE Returns(TRUE)

\* sendAsync: the value returned, and the error_msg it logs
SendAsyncOutcome(event) ==
    LET root == event.frame.root
        error_node == FindDescendant(root, "Error")
        success_node == FindDescendant(root, "Success")
    IN IF event.kind \in {"connect_failed", "send_failed", "closed"}
       THEN Returns(FALSE)
       ELSE IF event.kind = "timeout" THEN Returns(TRUE)
       ELSE IF ~event.frame.wellFormed THEN Returns(TRUE)
       ELSE IF error_node # <<>>
            THEN [raised |-> FALSE, value |-> FALSE,
                  error_msg |-> IF Truthy(error_node[1].text)
                                THEN error_node[1].text ELSE sUnknownError]
       ELSE IF success_node # <<>> THEN Returns(TRUE)
       ELSE Returns(TRUE)

\* changed: the node is looked for at any depth ('.//Mnet')
GetDeviceInfoOutcomeAnyDepth(event) ==
    LET node == FindDescendant(event.frame.root, "Mnet")
    IN IF event.kind # "frame" \/ ~event.frame.wellFormed THEN Returns(EmptyDict)
       ELSE IF node # <<>> THEN Returns(node[1].attrib)
       ELSE Returns(EmptyDict)

\* changed: a failure is logged and raised again, as getDevicesAsync does
GetDeviceInfoOutcomeReraising(event) ==
    LET node == FindPath(event.frame.root, <<"DatabaseManager", "Mnet">>)
    IN IF event.kind # "frame" \/ ~event.frame.wellFormed THEN Raises
       ELSE IF node # <<>> THEN Returns(node[1].attrib)
       ELSE Returns(EmptyDict)

\* getDeviceInfoAsync: node.attrib, or {} for no node and for any exception
GetDeviceInfoOutcome(event) ==
    LET node == FindPath(event.frame.root, <<"DatabaseManager", "Mnet">>)
    IN IF event.kind # "frame" \/ ~event.frame.wellFormed THEN Returns(EmptyDict)
       ELSE IF node # <<>> THEN Returns(node[1].attrib)
       ELSE Returns(EmptyDict)

\* changed: each descriptor is put at the head of the list
RECURSIVE GroupListPrepending(_)
GroupListPrepending(records) ==
    IF records = <<>> THEN <<>>
    ELSE LET r == Head(records)
             device_id == DictGet(r.attrib, "Group")
             device_name == DictGet(r.attrib, "GroupNameWeb")
         IN GroupListPrepending(Tail(records))
            \o (IF Truthy(device_id) /\ Truthy(device_name)
                THEN <<[id |-> device_id, name |-> device_name]>> ELSE <<>>)

\* the loop of getDevicesAsync over the MnetRecord elements
RECURSIVE GroupList(_)
GroupList(records) ==
    IF records = <<>> THEN <<>>
    ELSE LET r == Head(records)
             device_id == DictGet(r.attrib, "Group")
             device_name == DictGet(r.attrib, "GroupNameWeb")
         IN (IF Truthy(device_id) /\ Truthy(device_name)
             THEN <<[id |-> device_id, name |-> device_name]>> ELSE <<>>)
            \o GroupList(Tail(records))

\* changed: a failure is logged and an empty list returned
GetDevicesOutcomeEmptyOnFailure(event) ==
    IF event.kind # "frame" \/ ~event.frame.wellFormed THEN Returns(<<>>)
    ELSE Returns(GroupList(FindAllPath(<<event.frame.root>>,
            <<"DatabaseManager", "ControlGroup", "MnetList", "MnetRecord">>)))

\* getDevicesAsync: the list, or the exception re-raised
GetDevicesOutcome(event) ==
    IF event.kind # "frame" \/ ~event.frame.wellFormed THEN Raises
    ELSE Returns(GroupList(FindAllPath(<<event.frame.root>>,
            <<"DatabaseManager", "ControlGroup", "MnetList", "MnetRecord">>)))

Outcome(name, event) ==
    CASE name = "sendAsync" -> SendAsyncOutcome(event)
      [] name = "getDeviceInfoAsync" -> GetDeviceInfoOutcome(event)
      [] name = "getDevicesAsync" -> GetDevicesOutcome(event)

\* ------------------------------------------------------------------------
\* Values of the adapter (climate.py) and of the setup flow (config_flow.py)
\* ------------------------------------------------------------------------
\* the event loop's clock when the entities are created, in seconds; the
\* clock is monotonic and has run for longer than the lease and the grace
\* window when the integration is set up
StartTime == 100
\* how long the model follows the clock
MaxElapsed == 15

\* self._info_lease_seconds = 8
InfoLeaseSeconds == 8
\* self._ignore_updates_duration = 15
IgnoreUpdatesDuration == 15

\* an optional float (None or hundredths) is a sequence of at most one number
NoFloat == <<>>
Float(h) == <<h>>

\* AE200Device.__init__; fetched_at and written are the history of the
\* snapshot: when _attributes was last assigned, and whether a verified
\* write has been made since
NewDevice == [_attributes |-> EmptyDict, _last_info_time_s |-> 0,
              _info_lease_seconds |-> InfoLeaseSeconds,
              fetched_at |-> 0, written |-> FALSE]

\* changed: the last mode starts as OFF, like the displayed mode
NewClimateLastOff(use_fahrenheit) ==
    [_use_fahrenheit |-> use_fahrenheit,
     _current_temperature |-> NoFloat,
     _target_temperature |-> NoFloat,
     _target_temperature_high |-> NoFloat,
     _target_temperature_low |-> NoFloat,
     _swing_mode |-> None,
     _fan_mode |-> None,
     _hvac_mode |-> "off",
     _last_hvac_mode |-> "off",
     _setting_temperature |-> FALSE,
     _setting_mode |-> FALSE,
     _setting_fan |-> FALSE,
     _setting_swing |-> FALSE,
     _last_temp_set_time |-> 0,
     _last_mode_set_time |-> 0,
     _last_fan_set_time |-> 0,
     _last_swing_set_time |-> 0,
     _ignore_updates_duration |-> IgnoreUpdatesDuration]

\* AE200Climate.__init__
NewClimate(use_fahrenheit) ==
    [_use_fahrenheit |-> use_fahrenheit,
     _current_temperature |-> NoFloat,
     _target_temperature |-> NoFloat,
     _target_temperature_high |-> NoFloat,
     _target_temperature_low |-> NoFloat,
     _swing_mode |-> None,
     _fan_mode |-> None,
     _hvac_mode |-> "off",
     _last_hvac_mode |-> "cool",
     _setting_temperature |-> FALSE,
     _setting_mode |-> FALSE,
     _setting_fan |-> FALSE,
     _setting_swing |-> FALSE,
     _last_temp_set_time |-> 0,
     _last_mode_set_time |-> 0,
     _last_fan_set_time |-> 0,
     _last_swing_set_time |-> 0,
     _ignore_updates_duration |-> IgnoreUpdatesDuration]

\* what a step of the setup flow returns: a form, or the created entry
FlowResult(type, step_id, errors) ==
    [type |-> type, step_id |-> step_id, errors |-> errors]
NoResult == FlowResult("none", "", EmptyDict)

\* ------------------------------------------------------------------------
\* State
\* ------------------------------------------------------------------------
VARIABLES
    call,   \* per task: the client function its caller invoked, or "none"
    sv,     \* per task: the frame of sendAndVerifyAsync
    op,     \* per task: the frame of getDevicesAsync/getDeviceInfoAsync/sendAsync
    open,   \* open websocket connections, each with the operations that used it
    cmp,    \* one comparison of a written key with a read-back
    pair,   \* two verified writes of the same attributes, side by side
    setup,  \* the frame of async_setup_entry
    flow,   \* the config flow and its frame of async_step_user
    now,    \* asyncio.get_event_loop().time(), in seconds
    dev,    \* the AE200Device
    ent,    \* the AE200Climate entity
    cmd,    \* the frame of the entity command in flight
    upd,    \* the frame of async_update
    acc     \* the frame of a method of the device called on its own

adapterVars == <<now, dev, ent, cmd, upd, acc>>

vars == <<call, sv, op, open, cmp, pair, setup, flow, adapterVars>>

NoEvent == Event("none", NotXml)

IdleOp == [name |-> "none", pc |-> "idle", seq |-> 0, websocket |-> 0,
           event |-> NoEvent, result |-> Returns(None)]

\* websocket = None at the head of each operation
StartOp(name, seq) == [name |-> name, pc |-> "connect", seq |-> seq,
                       websocket |-> 0, event |-> NoEvent, result |-> Returns(None)]

IdleVerify == [pc |-> "idle", attributes |-> EmptyDict, max_retries |-> 0,
               attempt |-> 0, success |-> FALSE, device_info |-> EmptyDict,
               read |-> FALSE, result |-> FALSE, sends |-> 0, reads |-> 0]

IdleCompare == [key |-> "", expected_value |-> StrValue(<<>>),
                device_info |-> EmptyDict, evaluated |-> FALSE, verified |-> FALSE]

IdlePair == [a |-> IdleVerify, b |-> IdleVerify]

\* async_setup_entry before its call: devices = [] and nothing added
IdleSetup == [pc |-> "idle", devices |-> <<>>, added |-> <<>>, raised |-> FALSE]

\* the ConfigFlow after __init__, with no step running. config_data and
\* discovered_devices are its attributes; user_input, auth_success and
\* devices are the locals of async_step_user ("none", <<>>: not assigned);
\* result is what the last step returned, entry the data of the config entry
\* it created. History kept for the properties: probe (what the probe of
\* authenticate met)
IdleFlow ==
    [pc |-> "idle", config_data |-> EmptyDict, discovered_devices |-> <<>>,
     user_input |-> EmptyDict, auth_success |-> "none", devices |-> <<>>,
     result |-> NoResult, entry |-> EmptyDict, probe |-> NoEvent]

\* no entity command in flight. kwargs, arg: what the caller passed;
\* current_time .. mode_success: the locals of the command and of the device
\* method it awaits; attributes: what the last write handed to
\* sendAndVerifyAsync. History kept for the properties: read_failed (the last
\* device read failed), last_result (what the last write returned), failed (a
\* write of the part of the command under way reported failure), set_fields
\* (entity fields that part assigned), issued_at (when its last write was
\* issued), raised (a call the command awaited raised), earlier (the command
\* that returned before this one was called, and its timestamp)
IdleCommand ==
    [pc |-> "idle", wait |-> "no", name |-> "none", kwargs |-> EmptyDict,
     arg |-> "", current_time |-> 0, mode |-> None, temp_key |-> "",
     attributes |-> EmptyDict, success |-> FALSE, high_success |-> FALSE,
     low_success |-> FALSE, power_success |-> FALSE, mode_success |-> FALSE,
     read_failed |-> FALSE, last_result |-> FALSE, failed |-> FALSE,
     set_fields |-> {}, issued_at |-> 0, raised |-> FALSE, earlier |-> <<>>]

\* no poll in flight. mode: the local of getTargetTemperature; read_key: the
\* key it read. History kept for the properties: skipped (the poll returned
\* at once), read_failed (the last device read failed), delivered (a
\* read of this poll returned attributes), changed, after_failure (the poll
\* started when a command had returned as failed), gets (the calls of
\* _get_info the poll made), reads (the device reads it awaited)
IdleUpdate ==
    [pc |-> "idle", wait |-> "no", mode |-> None, read_key |-> "",
     skipped |-> FALSE, read_failed |-> FALSE,
     delivered |-> FALSE, changed |-> {}, after_failure |-> FALSE,
     gets |-> 0, reads |-> 0]

\* no method of the device in flight. key: the key _get_info is asked for;
\* mode: what getMode returned to the method; attributes: what the method
\* hands to sendAndVerifyAsync; value: what _get_info returned last. History
\* kept for the properties: served (how the last _get_info got its answer),
\* read_failed (the last device read failed)
IdleAccess ==
    [pc |-> "idle", wait |-> "no", method |-> "none", key |-> "",
     mode |-> None, attributes |-> EmptyDict, value |-> None,
     success |-> FALSE, served |-> "none", read_failed |-> FALSE]

\* the variables of the adapter while only the client is looked at
AdapterAtRest ==
    /\ now = StartTime
    /\ dev = NewDevice
    /\ ent = NewClimate(FALSE)
    /\ cmd = IdleCommand
    /\ upd = IdleUpdate
    /\ acc = IdleAccess

\* one task calling the client
Init ==
    /\ call = [t \in {1} |-> "none"]
    /\ sv = [t \in {1} |-> IdleVerify]
    /\ op = [t \in {1} |-> IdleOp]
    /\ open = EmptyDict
    /\ setup = IdleSetup
    /\ flow = IdleFlow
    /\ AdapterAtRest
    /\ cmp = IdleCompare
    /\ pair = IdlePair

\* ------------------------------------------------------------------------
\* One client operation: connect, send, receive, close
\* ------------------------------------------------------------------------
\* the operation a task is running
Inst(t) == <<t, op[t].seq>>

\* websockets.connect returns a new connection
NewConnection == CHOOSE c \in 1..(Cardinality(DOMAIN open) + 1) : c \notin DOMAIN open

Use(c, t) == IF c \in DOMAIN open THEN [open EXCEPT ![c] = @ \cup {Inst(t)}] ELSE open

\* the try block is left with the operation's return value or exception
\* decided; only the finally clause remains
Leave(t, event) ==
    op' = [op EXCEPT ![t].pc = "finally", ![t].event = event,
                     ![t].result = Outcome(op[t].name, event)]

\* websocket = await self._create_connection(address)
Connect(t) ==
    /\ op[t].pc = "connect"
    /\ \/ /\ op' = [op EXCEPT ![t].pc = "send", ![t].websocket = NewConnection]
          /\ open' = [c \in DOMAIN open \cup {NewConnection} |->
                        IF c = NewConnection THEN {Inst(t)} ELSE open[c]]
       \/ /\ Leave(t, ConnectFailed)
          /\ UNCHANGED open
    /\ UNCHANGED <<call, sv, cmp, pair, setup, flow, adapterVars>>

\* await websocket.send(payload)
Send(t) ==
    /\ op[t].pc = "send"
    /\ open' = Use(op[t].websocket, t)
    /\ \/ op' = [op EXCEPT ![t].pc = "recv"]
       \/ Leave(t, SendFailed)
    /\ UNCHANGED <<call, sv, cmp, pair, setup, flow, adapterVars>>

\* response = await asyncio.wait_for(websocket.recv(), ...) and the code up
\* to the return or raise, which runs without another suspension point;
\* frames: what the controller may answer
ReceiveFrom(t, frames) ==
    /\ op[t].pc = "recv"
    /\ open' = Use(op[t].websocket, t)
    /\ \E event \in {Closed, Timeout} \cup {Received(f) : f \in frames} :
         Leave(t, event)
    /\ UNCHANGED <<call, sv, cmp, pair, setup, flow, adapterVars>>

Receive(t) == ReceiveFrom(t, ClientFrames(op[t].name))

\* whether the finally clause closes: if websocket
ClosesSocket(websocket) == websocket # 0

\* changed: the connection is closed at the end of the try block, which a
\* failure skips, and not in a finally clause
FinallyClosesOnSuccessOnly(t) ==
    /\ op[t].pc = "finally"
    /\ open' = IF ClosesSocket(op[t].websocket) /\ op[t].event.kind = "frame"
               THEN [c \in DOMAIN open \ {op[t].websocket} |-> open[c]]
               ELSE open
    /\ op' = [op EXCEPT ![t].pc = "returned"]
    /\ UNCHANGED <<call, sv, cmp, pair, setup, flow, adapterVars>>

\* finally: if websocket: await websocket.close(); then the return or raise
Finally(t) ==
    /\ op[t].pc = "finally"
    /\ open' = IF ClosesSocket(op[t].websocket)
               THEN [c \in DOMAIN open \ {op[t].websocket} |-> open[c]]
               ELSE open
    /\ op' = [op EXCEPT ![t].pc = "returned"]
    /\ UNCHANGED <<call, sv, cmp, pair, setup, flow, adapterVars>>

\* ------------------------------------------------------------------------
\* sendAndVerifyAsync
\* ------------------------------------------------------------------------
\* changed: attempt < max_retries, one round too many
RetryOrFailOffByOne(s) ==
    IF s.attempt < s.max_retries
    THEN [s EXCEPT !.pc = "RetryDelay"]
    ELSE [s EXCEPT !.pc = "done", !.result = FALSE]

\* the four places that end a failed round: continue after a sleep while
\* attempt < max_retries - 1, return False otherwise
RetryOrFail(s) ==
    IF s.attempt < s.max_retries - 1
    THEN [s EXCEPT !.pc = "RetryDelay"]
    ELSE [s EXCEPT !.pc = "done", !.result = FALSE]

\* for attempt in range(max_retries): ... and the return False after the loop
Begin(attributes, max_retries) ==
    [IdleVerify EXCEPT !.attributes = attributes, !.max_retries = max_retries,
                       !.pc = IF max_retries > 0 THEN "Sending" ELSE "done"]

\* a round starts: success = await self.sendAsync(...) is issued. The locals
\* success and device_info of the round before are not read again; they are
\* cleared here so that they describe the current round
IssueSend(s) ==
    [s EXCEPT !.pc = "AwaitSend", !.sends = @ + 1, !.success = FALSE,
              !.device_info = EmptyDict, !.read = FALSE]

\* changed: the result of sendAsync is stored and not tested
AfterSendUnchecked(s, success) == [s EXCEPT !.success = success, !.pc = "Settling"]

\* if not success: ... ; otherwise await asyncio.sleep(2)
AfterSend(s, success) ==
    IF ~success THEN RetryOrFail([s EXCEPT !.success = FALSE])
    ELSE [s EXCEPT !.success = TRUE, !.pc = "Settling"]

\* device_info = await self.getDeviceInfoAsync(...) is issued
IssueRead(s) == [s EXCEPT !.pc = "Verifying", !.reads = @ + 1]

\* changed: the read-back is not tested for being empty
AfterReadWithoutEmptyTest(s, device_info) ==
    LET r == [s EXCEPT !.device_info = device_info, !.read = TRUE]
    IN IF ~VerificationFailed(s.attributes, device_info)
       THEN [r EXCEPT !.pc = "done", !.result = TRUE]
       ELSE RetryOrFail(r)

\* if not device_info: ... ; the comparison loop; if not verification_failed
AfterRead(s, device_info) ==
    LET r == [s EXCEPT !.device_info = device_info, !.read = TRUE]
    IN IF DOMAIN device_info = {} THEN RetryOrFail(r)
       ELSE IF ~VerificationFailed(s.attributes, device_info)
            THEN [r EXCEPT !.pc = "done", !.result = TRUE]
            ELSE RetryOrFail(r)

\* continue: the next value of attempt
NextAttempt(s) == [s EXCEPT !.pc = "Sending", !.attempt = @ + 1]

\* a caller invokes sendAndVerifyAsync(address, deviceId, attributes, max_retries)
CallSendAndVerify(t) ==
    /\ call[t] = "none"
    /\ \E attributes \in Writes, max_retries \in 0..MaxRetriesArg :
         sv' = [sv EXCEPT ![t] = Begin(attributes, max_retries)]
    /\ call' = [call EXCEPT ![t] = "sendAndVerifyAsync"]
    /\ UNCHANGED <<op, open, cmp, pair, setup, flow, adapterVars>>

Sending(t) ==
    /\ sv[t].pc = "Sending"
    /\ sv' = [sv EXCEPT ![t] = IssueSend(@)]
    /\ op' = [op EXCEPT ![t] = StartOp("sendAsync", sv[t].sends + sv[t].reads + 1)]
    /\ UNCHANGED <<call, open, cmp, pair, setup, flow, adapterVars>>

SendReturned(t) ==
    /\ sv[t].pc = "AwaitSend"
    /\ op[t].pc = "returned"
    /\ sv' = [sv EXCEPT ![t] = AfterSend(@, op[t].result.value)]
    /\ op' = [op EXCEPT ![t] = IdleOp]
    /\ UNCHANGED <<call, open, cmp, pair, setup, flow, adapterVars>>

Settling(t) ==
    /\ sv[t].pc = "Settling"
    /\ sv' = [sv EXCEPT ![t] = IssueRead(@)]
    /\ op' = [op EXCEPT ![t] = StartOp("getDeviceInfoAsync", sv[t].sends + sv[t].reads + 1)]
    /\ UNCHANGED <<call, open, cmp, pair, setup, flow, adapterVars>>

Verifying(t) ==
    /\ sv[t].pc = "Verifying"
    /\ op[t].pc = "returned"
    /\ sv' = [sv EXCEPT ![t] = AfterRead(@, op[t].result.value)]
    /\ op' = [op EXCEPT ![t] = IdleOp]
    /\ UNCHANGED <<call, open, cmp, pair, setup, flow, adapterVars>>

RetryDelay(t) ==
    /\ sv[t].pc = "RetryDelay"
    /\ sv' = [sv EXCEPT ![t] = NextAttempt(@)]
    /\ UNCHANGED <<call, op, open, cmp, pair, setup, flow, adapterVars>>

\* the caller has the result of sendAndVerifyAsync
VerifyReturned(t) ==
    /\ call[t] = "sendAndVerifyAsync"
    /\ sv[t].pc = "done"
    /\ call' = [call EXCEPT ![t] = "none"]
    /\ sv' = [sv EXCEPT ![t] = IdleVerify]
    /\ UNCHANGED <<op, open, cmp, pair, setup, flow, adapterVars>>

\* a caller invokes getDevicesAsync, getDeviceInfoAsync or sendAsync itself
CallOperation(t) ==
    /\ call[t] = "none"
    /\ \E name \in {"getDevicesAsync", "getDeviceInfoAsync", "sendAsync"} :
         /\ call' = [call EXCEPT ![t] = name]
         /\ op' = [op EXCEPT ![t] = StartOp(name, 1)]
    /\ UNCHANGED <<sv, open, cmp, pair, setup, flow, adapterVars>>

\* the caller has the operation's return value or exception
OperationReturned(t) ==
    /\ call[t] \in {"getDevicesAsync", "getDeviceInfoAsync", "sendAsync"}
    /\ op[t].pc = "returned"
    /\ call' = [call EXCEPT ![t] = "none"]
    /\ op' = [op EXCEPT ![t] = IdleOp]
    /\ UNCHANGED <<sv, open, cmp, pair, setup, flow, adapterVars>>

\* async_setup_entry after group_list = await getDevicesAsync(ipaddress):
\* one entity per group, async_add_entities(devices) when there is any; an
\* exception is logged by the except clause and goes no further
SetupAfterDiscovery(result) ==
    LET devices == IF result.raised THEN <<>> ELSE result.value
    IN [pc |-> "done", devices |-> devices, added |-> devices, raised |-> FALSE]

\* Home Assistant sets the platform up: async_setup_entry runs to its await
CallSetupEntry(t) ==
    /\ call[t] = "none"
    /\ setup.pc \in {"idle", "done"}
    /\ call' = [call EXCEPT ![t] = "async_setup_entry"]
    /\ op' = [op EXCEPT ![t] = StartOp("getDevicesAsync", 1)]
    /\ setup' = [IdleSetup EXCEPT !.pc = "await"]
    /\ UNCHANGED <<sv, open, cmp, pair, flow, adapterVars>>

\* getDevicesAsync has returned or raised; the rest of async_setup_entry
SetupReturned(t) ==
    /\ call[t] = "async_setup_entry"
    /\ op[t].pc = "returned"
    /\ setup' = SetupAfterDiscovery(op[t].result)
    /\ call' = [call EXCEPT ![t] = "none"]
    /\ UNCHANGED <<sv, op, open, cmp, pair, flow, adapterVars>>

Tasks == DOMAIN call

Next ==
    \/ \E t \in Tasks : CallSendAndVerify(t)
    \/ \E t \in Tasks : Sending(t)
    \/ \E t \in Tasks : SendReturned(t)
    \/ \E t \in Tasks : Settling(t)
    \/ \E t \in Tasks : Verifying(t)
    \/ \E t \in Tasks : RetryDelay(t)
    \/ \E t \in Tasks : VerifyReturned(t)
    \/ \E t \in Tasks : CallOperation(t)
    \/ \E t \in Tasks : Connect(t)
    \/ \E t \in Tasks : Send(t)
    \/ \E t \in Tasks : Receive(t)
    \/ \E t \in Tasks : Finally(t)
    \/ \E t \in Tasks : OperationReturned(t)
    \/ \E t \in Tasks : CallSetupEntry(t)
    \/ \E t \in Tasks : SetupReturned(t)

Spec == Init /\ [][Next]_vars

\* ------------------------------------------------------------------------
\* The comparison of one written key on its own
\* ------------------------------------------------------------------------
sEmpty == <<>>
sNan == <<"n", "a", "n">>
sAbc == <<"a", "b", "c">>
s23_5 == <<"2", "3", ".", "5">>
s23_25 == <<"2", "3", ".", "2", "5">>
s24_75 == <<"2", "4", ".", "7", "5">>
s24_50 == <<"2", "4", ".", "5", "0">>
sCool == <<"c", "o", "o", "l">>

CompareKeys == {"SetTemp", "SetTemp1", "SetTemp2", "Mode", "Drive"}

ExpectedValues ==
    {FloatValue(2400), FloatValue(2450)}
    \cup {StrValue(x) : x \in {s24, s24_0, sEmpty, sNan, sAbc, sCOOL, sON}}

ActualValues ==
    {s24, s24_0, s24_5, s24_50, s24_75, s23_5, s23_25, s26, sEmpty, sNan, sAbc,
     sCOOL, sCool, sHEAT, sON, sOFF}

\* the read-back holds the key, or only another key
CompareInfos(key) ==
    {[k \in {key} |-> a] : a \in ActualValues} \cup {[Other |-> s24]}

InitCompare ==
    /\ call = [t \in {1} |-> "none"]
    /\ sv = [t \in {1} |-> IdleVerify]
    /\ op = [t \in {1} |-> IdleOp]
    /\ open = EmptyDict
    /\ setup = IdleSetup
    /\ flow = IdleFlow
    /\ AdapterAtRest
    /\ pair = IdlePair
    /\ \E key \in CompareKeys, expected_value \in ExpectedValues :
         \E device_info \in CompareInfos(key) :
           cmp = [key |-> key, expected_value |-> expected_value,
                  device_info |-> device_info, evaluated |-> FALSE,
                  verified |-> FALSE]

\* one iteration of the loop over attributes.items()
CompareKey ==
    /\ ~cmp.evaluated
    /\ cmp' = [cmp EXCEPT !.evaluated = TRUE,
                 !.verified = KeyVerified(cmp.key, cmp.expected_value, cmp.device_info)]
    /\ UNCHANGED <<call, sv, op, open, pair, setup, flow, adapterVars>>

NextCompare == CompareKey

SpecCompare == InitCompare /\ [][NextCompare]_vars

\* ------------------------------------------------------------------------
\* Two verified writes of the same attributes whose read-backs agree on the
\* written keys and may differ everywhere else
\* ------------------------------------------------------------------------
s20 == <<"2", "0">>
s22 == <<"2", "2">>

PairWrites ==
    { Merge(a, b) :
        a \in DictsOver({"SetTemp2"}, {StrValue(s20), FloatValue(2000)}),
        b \in DictsOver({"Drive"}, {StrValue(sON)}) }

PairReads ==
    { Merge(Merge(a, b), c) :
        a \in DictsOver({"SetTemp2"}, {s20, s22}),
        b \in DictsOver({"Mode"}, {sCOOL, sHEAT}),
        c \in DictsOver({"Drive"}, {sON}) }

AgreeOn(keys, i1, i2) == \A k \in keys : DictGet(i1, k) = DictGet(i2, k)

\* one pass through the body of the for loop, given what sendAsync and
\* getDeviceInfoAsync return in it
Round(s, success, device_info) ==
    IF s.pc # "Sending" THEN s
    ELSE LET sent == AfterSend(IssueSend(s), success)
             read == IF sent.pc = "Settling"
                     THEN AfterRead(IssueRead(sent), device_info) ELSE sent
         IN IF read.pc = "RetryDelay" THEN NextAttempt(read) ELSE read

InitPair ==
    /\ call = [t \in {1} |-> "none"]
    /\ sv = [t \in {1} |-> IdleVerify]
    /\ op = [t \in {1} |-> IdleOp]
    /\ open = EmptyDict
    /\ setup = IdleSetup
    /\ flow = IdleFlow
    /\ AdapterAtRest
    /\ cmp = IdleCompare
    /\ pair = IdlePair

PairCall ==
    /\ pair.a.pc = "idle"
    /\ \E attributes \in PairWrites, max_retries \in 0..MaxPairRetries :
         pair' = [a |-> Begin(attributes, max_retries),
                  b |-> Begin(attributes, max_retries)]
    /\ UNCHANGED <<call, sv, op, open, cmp, setup, flow, adapterVars>>

PairRound ==
    /\ pair.a.pc = "Sending" \/ pair.b.pc = "Sending"
    /\ \/ pair' = [a |-> Round(pair.a, FALSE, EmptyDict),
                     b |-> Round(pair.b, FALSE, EmptyDict)]
       \/ \E infoA \in PairReads, infoB \in PairReads :
            /\ AgreeOn(DOMAIN pair.a.attributes, infoA, infoB)
            /\ pair' = [a |-> Round(pair.a, TRUE, infoA),
                        b |-> Round(pair.b, TRUE, infoB)]
    /\ UNCHANGED <<call, sv, op, open, cmp, setup, flow, adapterVars>>

PairReturned ==
    /\ pair.a.pc = "done"
    /\ pair.b.pc = "done"
    /\ pair' = IdlePair
    /\ UNCHANGED <<call, sv, op, open, cmp, setup, flow, adapterVars>>

NextPair == PairCall \/ PairRound \/ PairReturned

SpecPair == InitPair /\ [][NextPair]_vars

\* ------------------------------------------------------------------------
\* The adapter: AE200Device
\* ------------------------------------------------------------------------
sDRY == <<"D", "R", "Y">>
sFAN == <<"F", "A", "N">>
sAUTO == <<"A", "U", "T", "O">>
sHeatLower == <<"h", "e", "a", "t">>
sLOW == <<"L", "O", "W">>
sMID2 == <<"M", "I", "D", "2">>
sMID1 == <<"M", "I", "D", "1">>
sMID0 == <<"M", "I", "D", "0">>
sHIGH == <<"H", "I", "G", "H">>
sSWING == <<"S", "W", "I", "N", "G">>
sVERTICAL == <<"V", "E", "R", "T", "I", "C", "A", "L">>
sHORIZONTAL == <<"H", "O", "R", "I", "Z", "O", "N", "T", "A", "L">>
s20_0 == <<"2", "0", ".", "0">>

\* what the controller reports for the unit
Info(drive, modes) ==
    Merge([Drive |-> drive, SetTemp1 |-> s24_0, SetTemp2 |-> s20_0,
           FanSpeed |-> sLOW, AirDirection |-> sSWING, InletTemp |-> s23_5],
          modes)

\* the unit running in each mode, in a mode the adapter does not know, and
\* without a Mode attribute; and the unit switched off
DeviceInfos ==
    { Info(sON, [Mode |-> m]) : m \in {sHEAT, sCOOL, sDRY, sFAN, sAUTO, sHeatLower} }
    \cup { Info(sON, EmptyDict), Info(sOFF, [Mode |-> sCOOL]) }

\* what one getDeviceInfoAsync can meet when a method of the device is
\* called: no response, a response without the unit's node, one with it
DeviceReadEvents ==
    { Timeout, Received(XmlFrame(DetailDoc(<<>>))) }
    \cup { Received(XmlFrame(DetailDoc(<<Mnet(i)>>))) : i \in DeviceInfos }

\* of these, for the entity: the unit running in FAN, running without a
\* Mode attribute (displayed as HEAT_COOL), and switched off
AdapterInfos ==
    { Info(sON, [Mode |-> sFAN]), Info(sON, EmptyDict), Info(sOFF, [Mode |-> sCOOL]) }

\* what one getDeviceInfoAsync of the adapter can meet: no response, a
\* response with the unit's node
AdapterReadEvents ==
    { Timeout }
    \cup { Received(XmlFrame(DetailDoc(<<Mnet(i)>>))) : i \in AdapterInfos }

ReadFailed(event) == event.kind # "frame" \/ ~event.frame.wellFormed

\* what sendAndVerifyAsync returns to the device's set methods
SendAndVerifyResults == {TRUE, FALSE}

\* round(x, 1) of x = n/d hundredths, n >= 0: the nearest tenth (the values
\* of the model are never half way between two tenths)
RoundTenth(n, d) == ((2 * n + 10 * d) \div (20 * d)) * 10

\* celsius_to_fahrenheit and fahrenheit_to_celsius, on optional floats
celsius_to_fahrenheit(celsius) ==
    IF celsius = NoFloat THEN NoFloat
    ELSE Float(RoundTenth(9 * celsius[1] + 16000, 5))

\* changed: the parentheses around fahrenheit - 32 are missing
fahrenheit_to_celsius_unbracketed(fahrenheit) ==
    IF fahrenheit = NoFloat THEN NoFloat
    ELSE Float(RoundTenth(9 * fahrenheit[1] - 16000, 9))

fahrenheit_to_celsius(fahrenheit) ==
    IF fahrenheit = NoFloat THEN NoFloat
    ELSE Float(RoundTenth(5 * (fahrenheit[1] - 3200), 9))

\* AE200Device._to_float: float(value), None for None and for any exception
\* (no value of the model is nan)
ToFloat(value) ==
    IF value = None THEN NoFloat
    ELSE LET f == ParseFloat(value)
         IN IF f.ok /\ ~f.nan THEN Float(f.h) ELSE NoFloat

\* self._attributes.get(key, default_value)
Get(d, key, default_value) == DictGet2(d._attributes, key, default_value)

\* changed: the lease is over as soon as the age reaches it
NeedsRefreshAtLease(d, t) ==
    \/ DOMAIN d._attributes = {}
    \/ (t - d._last_info_time_s) >= d._info_lease_seconds

\* changed: the age of the snapshot alone decides
NeedsRefreshByAgeOnly(d, t) ==
    (t - d._last_info_time_s) > d._info_lease_seconds

\* _get_info: not self._attributes or (time() - self._last_info_time_s) > lease
NeedsRefresh(d, t) ==
    \/ DOMAIN d._attributes = {}
    \/ (t - d._last_info_time_s) > d._info_lease_seconds

\* _refresh_device_info_async once getDeviceInfoAsync has returned info
Refreshed(d, info, t) ==
    [d EXCEPT !._attributes = info, !._last_info_time_s = t,
              !.fetched_at = t, !.written = FALSE]

\* the end of each set method: if success: self._last_info_time_s = 0
AfterWrite(d, success) ==
    IF success THEN [d EXCEPT !._last_info_time_s = 0, !.written = TRUE] ELSE d

\* getTargetTemperature: the key read for the mode getMode returned
GetTargetTemperatureKey(mode) ==
    IF mode = sHEAT THEN "SetTemp2"
    ELSE IF mode = sCOOL THEN "SetTemp1"
    ELSE IF mode = sDRY THEN "SetTemp1"
    ELSE "SetTemp1"

\* changed: every mode but COOL writes the heating setpoint
SetTemperatureKeyCoolOnly(mode) ==
    IF mode = sCOOL THEN "SetTemp1" ELSE "SetTemp2"

\* setTemperature: temp_key for the mode getMode returned
SetTemperatureKey(mode) ==
    IF mode = sHEAT THEN "SetTemp2"
    ELSE IF mode = sCOOL THEN "SetTemp1"
    ELSE IF mode = sDRY THEN "SetTemp1"
    ELSE "SetTemp1"

\* setTemperature, setTemperatureHigh, setTemperatureLow:
\* {key: round(float(temperature), 1)}
TemperatureWrite(key, temperature) ==
    [k \in {key} |-> FloatValue(RoundTenth(temperature[1], 1))]

\* ------------------------------------------------------------------------
\* The adapter: AE200Climate
\* ------------------------------------------------------------------------
\* self._fan_mode_map and self._swing_mode_map: controller value, label
FanModeMap ==
    { <<sAUTO, "Auto">>, <<sLOW, "Min (1/4)">>, <<sMID2, "Low (2/4)">>,
      <<sMID1, "High (3/4)">>, <<sHIGH, "Max (4/4)">> }

SwingModeMap ==
    { <<sAUTO, "Auto">>, <<sSWING, "Swing">>, <<sVERTICAL, "Vertical">>,
      <<sMID2, "Mid 2">>, <<sMID1, "Mid 1">>, <<sMID0, "Mid 0">>,
      <<sHORIZONTAL, "Horizontal">> }

\* the fan_mode and swing_mode properties: the label of a mapped value,
\* any other value (None too) as it is
LabelOf(map, value) ==
    IF \E m \in map : m[1] = value
    THEN [label |-> (CHOOSE m \in map : m[1] = value)[2], raw |-> None]
    ELSE [label |-> "", raw |-> value]

\* self._reverse_fan_mode_map.get(fan_mode, fan_mode), for the labels the
\* entity offers in fan_modes and swing_modes
ReverseGet(map, label) == (CHOOSE m \in map : m[2] = label)[1]

\* mode_map.get(hvac_mode, Mode.Auto) of async_set_hvac_mode
ModeOfHvac(hvac_mode) ==
    CASE hvac_mode = "heat" -> sHEAT
      [] hvac_mode = "cool" -> sCOOL
      [] hvac_mode = "dry" -> sDRY
      [] hvac_mode = "fan_only" -> sFAN
      [] OTHER -> sAUTO

\* changed: the chain without its branch for FAN
HvacOfModeWithoutFan(mode) ==
    IF mode = sHEAT THEN "heat"
    ELSE IF mode = sCOOL THEN "cool"
    ELSE IF mode = sDRY THEN "dry"
    ELSE "heat_cool"

\* the if/elif chain of async_update over the value of getMode
HvacOfMode(mode) ==
    IF mode = sHEAT THEN "heat"
    ELSE IF mode = sCOOL THEN "cool"
    ELSE IF mode = sDRY THEN "dry"
    ELSE IF mode = sFAN THEN "fan_only"
    ELSE "heat_cool"

\* what the entity shows: the properties hvac_mode, target_temperature,
\* target_temperature_high, target_temperature_low, fan_mode, swing_mode
Displayed(e) ==
    LET shown(celsius) == IF e._use_fahrenheit THEN celsius_to_fahrenheit(celsius)
                          ELSE celsius
    IN [hvac_mode |-> e._hvac_mode,
        target_temperature |->
            IF e._hvac_mode = "heat_cool" THEN NoFloat
            ELSE shown(e._target_temperature),
        target_temperature_high |->
            IF e._hvac_mode = "heat_cool" THEN shown(e._target_temperature_high)
            ELSE NoFloat,
        target_temperature_low |->
            IF e._hvac_mode = "heat_cool" THEN shown(e._target_temperature_low)
            ELSE NoFloat,
        fan_mode |-> LabelOf(FanModeMap, e._fan_mode),
        swing_mode |-> LabelOf(SwingModeMap, e._swing_mode)]

DisplayedProperties ==
    {"hvac_mode", "target_temperature", "target_temperature_high",
     "target_temperature_low", "fan_mode", "swing_mode"}

ChangedDisplay(e1, e2) ==
    {f \in DisplayedProperties : Displayed(e1)[f] # Displayed(e2)[f]}

\* _should_ignore_updates(update_type) at time t
ShouldIgnoreUpdates(e, update_type, t) ==
    CASE update_type = "temp" ->
           (t - e._last_temp_set_time) < e._ignore_updates_duration
      [] update_type = "mode" ->
           (t - e._last_mode_set_time) < e._ignore_updates_duration
      [] update_type = "fan" ->
           (t - e._last_fan_set_time) < e._ignore_updates_duration
      [] update_type = "swing" ->
           (t - e._last_swing_set_time) < e._ignore_updates_duration
      [] OTHER -> FALSE

\* changed: the test without self._setting_swing
SettingValuesWithoutSwing(e) ==
    e._setting_temperature \/ e._setting_mode \/ e._setting_fan

\* async_update: if self._setting_temperature or ... : return
SettingValues(e) ==
    e._setting_temperature \/ e._setting_mode \/ e._setting_fan \/ e._setting_swing

\* async_update at an accessor whose _get_info is not called because the
\* field was set recently: the place it goes on to ("" when it is called)
\* the poll returns: its locals are gone, the history stays
UpdateDone(u) == [u EXCEPT !.pc = "done", !.wait = "no", !.mode = None, !.read_key = ""]

UpdateSkips(u, e, t) ==
    CASE u.pc = "fan" /\ ShouldIgnoreUpdates(e, "fan", t) -> "swing"
      [] u.pc = "swing" /\ ShouldIgnoreUpdates(e, "swing", t) -> "power"
      [] u.pc = "mode" /\ ShouldIgnoreUpdates(e, "mode", t) -> "done"
      [] OTHER -> ""

\* async_update from the return of the _get_info it is at, with the
\* attributes d holds, up to its next _get_info (or its end)
UpdateAfterGet(u, e, d, t) ==
    CASE u.pc = "room" ->
           [upd |-> [u EXCEPT !.pc = "fan"],
            ent |-> [e EXCEPT !._current_temperature =
                                 ToFloat(Get(d, "InletTemp", None))]]
      [] u.pc = "fan" ->
           [upd |-> [u EXCEPT !.pc = "swing"],
            ent |-> [e EXCEPT !._fan_mode = Get(d, "FanSpeed", None)]]
      [] u.pc = "swing" ->
           [upd |-> [u EXCEPT !.pc = "power"],
            ent |-> [e EXCEPT !._swing_mode = Get(d, "AirDirection", None)]]
      [] u.pc = "power" ->
           IF Get(d, "Drive", sOFF) = sON
           THEN [upd |-> [u EXCEPT !.pc = IF ~ShouldIgnoreUpdates(e, "temp", t)
                                          THEN "tmode" ELSE "mode"],
                 ent |-> e]
           ELSE [upd |-> UpdateDone(u),
                 ent |-> [e EXCEPT
                    !._hvac_mode =
                        IF ~ShouldIgnoreUpdates(e, "mode", t) THEN "off" ELSE @,
                    !._target_temperature =
                        IF ~ShouldIgnoreUpdates(e, "temp", t) THEN NoFloat ELSE @,
                    !._target_temperature_high =
                        IF ~ShouldIgnoreUpdates(e, "temp", t) THEN NoFloat ELSE @,
                    !._target_temperature_low =
                        IF ~ShouldIgnoreUpdates(e, "temp", t) THEN NoFloat ELSE @]]
      [] u.pc = "tmode" ->
           [upd |-> [u EXCEPT !.pc = "tget", !.mode = Get(d, "Mode", sAUTO)],
            ent |-> e]
      [] u.pc = "tget" ->
           [upd |-> [u EXCEPT !.pc = "high",
                              !.read_key = GetTargetTemperatureKey(u.mode)],
            ent |-> [e EXCEPT !._target_temperature =
                        ToFloat(Get(d, GetTargetTemperatureKey(u.mode), None))]]
      [] u.pc = "high" ->
           [upd |-> [u EXCEPT !.pc = "low"],
            ent |-> [e EXCEPT !._target_temperature_high =
                                 ToFloat(Get(d, "SetTemp1", None))]]
      [] u.pc = "low" ->
           [upd |-> [u EXCEPT !.pc = "mode"],
            ent |-> [e EXCEPT !._target_temperature_low =
                                 ToFloat(Get(d, "SetTemp2", None))]]
      [] u.pc = "mode" ->
           LET mode == Get(d, "Mode", sAUTO)
           IN [upd |-> UpdateDone(u),
               ent |-> [e EXCEPT
                  !._hvac_mode = HvacOfMode(mode),
                  !._last_hvac_mode = HvacOfMode(mode),
                  !._target_temperature =
                      IF mode = sFAN /\ ~ShouldIgnoreUpdates(e, "temp", t)
                      THEN NoFloat ELSE @]]

\* the device method of a command is entered and calls sendAndVerifyAsync
\* with attributes: the first write of a part of the command, and a later one
IssueWrite(c, pc, attributes, t) ==
    [c EXCEPT !.pc = pc, !.wait = "write", !.attributes = attributes,
              !.issued_at = t]

IssueFirstWrite(c, pc, attributes, t) ==
    [IssueWrite(c, pc, attributes, t) EXCEPT !.set_fields = {}, !.failed = FALSE]

\* the command returns: its arguments and locals are gone, the history stays
Done(c) ==
    [c EXCEPT !.pc = "done", !.wait = "no", !.kwargs = EmptyDict, !.arg = "",
              !.current_time = 0, !.mode = None, !.temp_key = "",
              !.attributes = EmptyDict]

\* temperature in kwargs, in Celsius: fahrenheit_to_celsius(temperature) if
\* self._use_fahrenheit else temperature
TempCelsius(e, kwargs, key) ==
    IF e._use_fahrenheit THEN fahrenheit_to_celsius(Float(kwargs[key]))
    ELSE Float(kwargs[key])

\* async_set_temperature from temp_low = kwargs.get("target_temp_low") on
RangePart(c, e, t) ==
    IF {"target_temp_low", "target_temp_high"} \subseteq DOMAIN c.kwargs
    THEN [cmd |-> IssueFirstWrite(c, "r_high",
                     TemperatureWrite("SetTemp1",
                        TempCelsius(e, c.kwargs, "target_temp_high")), t),
          ent |-> [e EXCEPT !._setting_temperature = TRUE,
                            !._last_temp_set_time = c.current_time]]
    ELSE [cmd |-> Done(c), ent |-> e]

\* an entity command from its call to its first await
BeginCommand(name, kwargs, arg, e, t) ==
    LET c == [IdleCommand EXCEPT !.name = name, !.kwargs = kwargs, !.arg = arg,
                                 !.current_time = t]
    IN CASE name = "async_set_temperature" ->
              IF "temperature" \in DOMAIN kwargs
              THEN [cmd |-> [c EXCEPT !.pc = "t_mode"],
                    ent |-> [e EXCEPT !._setting_temperature = TRUE,
                                      !._last_temp_set_time = t]]
              ELSE RangePart(c, e, t)
         [] name = "async_set_hvac_mode" ->
              [cmd |-> IF arg = "off"
                       THEN IssueFirstWrite(c, "off_write", [Drive |-> StrValue(sOFF)], t)
                       ELSE IssueFirstWrite(c, "on_write", [Drive |-> StrValue(sON)], t),
               ent |-> [e EXCEPT !._setting_mode = TRUE, !._last_mode_set_time = t]]
         [] name = "async_set_fan_mode" ->
              [cmd |-> IssueFirstWrite(c, "fan_write",
                          [FanSpeed |-> StrValue(ReverseGet(FanModeMap, arg))], t),
               ent |-> [e EXCEPT !._setting_fan = TRUE, !._last_fan_set_time = t]]
         [] name = "async_set_swing_mode" ->
              [cmd |-> IssueFirstWrite(c, "swing_write",
                          [AirDirection |-> StrValue(ReverseGet(SwingModeMap, arg))], t),
               ent |-> [e EXCEPT !._setting_swing = TRUE, !._last_swing_set_time = t]]
         [] name = "async_turn_on" ->
              [cmd |-> IssueFirstWrite(c, "pon_write", [Drive |-> StrValue(sON)], t),
               ent |-> [e EXCEPT !._setting_mode = TRUE, !._last_mode_set_time = t]]
         [] name = "async_turn_off" ->
              [cmd |-> IssueFirstWrite(c, "poff_write", [Drive |-> StrValue(sOFF)], t),
               ent |-> [e EXCEPT !._setting_mode = TRUE, !._last_mode_set_time = t]]

\* setTemperature once getMode has returned mode: temp_key, and the write
AfterGetMode(c, e, mode, t) ==
    IssueFirstWrite([c EXCEPT !.mode = mode, !.temp_key = SetTemperatureKey(mode)],
                    "t_write",
                    TemperatureWrite(SetTemperatureKey(mode),
                                     TempCelsius(e, c.kwargs, "temperature")), t)

\* changed: one verified write of the two is enough
BothConfirmedEither(high_success, low_success) == high_success \/ low_success

\* if high_success and low_success
BothConfirmed(high_success, low_success) == high_success /\ low_success

\* changed: setMode is called whatever powerOn returned
AfterPowerOnUnchecked(c, e, result, t) ==
    [cmd |-> IssueWrite([c EXCEPT !.power_success = result], "mode_write",
                [Mode |-> StrValue(ModeOfHvac(c.arg))], t),
     ent |-> e]

\* async_set_hvac_mode with a mode other than OFF from the return of powerOn:
\* if power_success, setMode is called; if not, the command ends as failed
AfterPowerOn(c, e, result, t) ==
    IF result
    THEN [cmd |-> IssueWrite([c EXCEPT !.power_success = TRUE], "mode_write",
                     [Mode |-> StrValue(ModeOfHvac(c.arg))], t),
          ent |-> e]
    ELSE [cmd |-> Done([c EXCEPT !.power_success = FALSE]),
          ent |-> [e EXCEPT !._last_mode_set_time = 0,
                            !._setting_mode = FALSE]]

\* an entity command from the return of the sendAndVerifyAsync it awaits,
\* with result, up to its next await (or its end)
CommandAfterWrite(c, e, result, t) ==
    CASE c.pc = "t_write" ->
           RangePart(
             [c EXCEPT !.success = result, !.wait = "no",
                       !.set_fields = IF result THEN {"_target_temperature"} ELSE @],
             [e EXCEPT !._target_temperature =
                           IF result THEN TempCelsius(e, c.kwargs, "temperature") ELSE @,
                       !._last_temp_set_time = IF result THEN @ ELSE 0,
                       !._setting_temperature = FALSE],
             t)
      [] c.pc = "r_high" ->
           [cmd |-> IssueWrite([c EXCEPT !.high_success = result], "r_low",
                       TemperatureWrite("SetTemp2",
                          TempCelsius(e, c.kwargs, "target_temp_low")), t),
            ent |-> e]
      [] c.pc = "r_low" ->
           LET both == BothConfirmed(c.high_success, result)
           IN [cmd |-> Done([c EXCEPT !.low_success = result,
                     !.set_fields = IF both THEN {"_target_temperature_low",
                                                  "_target_temperature_high"} ELSE @]),
               ent |-> [e EXCEPT
                  !._target_temperature_low =
                      IF both THEN TempCelsius(e, c.kwargs, "target_temp_low") ELSE @,
                  !._target_temperature_high =
                      IF both THEN TempCelsius(e, c.kwargs, "target_temp_high") ELSE @,
                  !._last_temp_set_time = IF both THEN @ ELSE 0,
                  !._setting_temperature = FALSE]]
      [] c.pc = "off_write" ->
           [cmd |-> Done([c EXCEPT !.success = result,
                     !.set_fields = IF result THEN {"_hvac_mode"} ELSE @]),
            ent |-> [e EXCEPT !._hvac_mode = IF result THEN "off" ELSE @,
                              !._last_mode_set_time = IF result THEN @ ELSE 0,
                              !._setting_mode = FALSE]]
      [] c.pc = "on_write" -> AfterPowerOn(c, e, result, t)
      [] c.pc = "mode_write" ->
           [cmd |-> Done([c EXCEPT !.mode_success = result, !.success = result,
                     !.set_fields = IF result THEN {"_hvac_mode"} ELSE @]),
            ent |-> [e EXCEPT !._hvac_mode = IF result THEN c.arg ELSE @,
                              !._last_hvac_mode = IF result THEN c.arg ELSE @,
                              !._last_mode_set_time = IF result THEN @ ELSE 0,
                              !._setting_mode = FALSE]]
      [] c.pc = "fan_write" ->
           [cmd |-> Done([c EXCEPT !.success = result,
                     !.set_fields = IF result THEN {"_fan_mode"} ELSE @]),
            ent |-> [e EXCEPT !._fan_mode =
                                 IF result THEN c.attributes["FanSpeed"].s ELSE @,
                              !._last_fan_set_time = IF result THEN @ ELSE 0,
                              !._setting_fan = FALSE]]
      [] c.pc = "swing_write" ->
           [cmd |-> Done([c EXCEPT !.success = result,
                     !.set_fields = IF result THEN {"_swing_mode"} ELSE @]),
            ent |-> [e EXCEPT !._swing_mode =
                                 IF result THEN c.attributes["AirDirection"].s ELSE @,
                              !._last_swing_set_time = IF result THEN @ ELSE 0,
                              !._setting_swing = FALSE]]
      [] c.pc = "pon_write" ->
           [cmd |-> Done([c EXCEPT !.success = result,
                     !.set_fields = IF result THEN {"_hvac_mode"} ELSE @]),
            ent |-> [e EXCEPT !._hvac_mode = IF result THEN e._last_hvac_mode ELSE @,
                              !._last_mode_set_time = IF result THEN @ ELSE 0,
                              !._setting_mode = FALSE]]
      [] c.pc = "poff_write" ->
           [cmd |-> Done([c EXCEPT !.success = result,
                     !.set_fields = IF result THEN {"_hvac_mode"} ELSE @]),
            ent |-> [e EXCEPT !._hvac_mode = IF result THEN "off" ELSE @,
                              !._last_mode_set_time = IF result THEN @ ELSE 0,
                              !._setting_mode = FALSE]]

\* the calls Home Assistant makes: temperatures in the entity's unit (22,
\* 20 and 26 degrees Celsius, 72, 68 and 79 degrees Fahrenheit), a single
\* setpoint, a range, or both; modes, fan and swing labels of the entity
Requests(e) ==
    LET single == [temperature |-> IF e._use_fahrenheit THEN 7200 ELSE 2200]
        range == [target_temp_low |-> IF e._use_fahrenheit THEN 6800 ELSE 2000,
                  target_temp_high |-> IF e._use_fahrenheit THEN 7900 ELSE 2600]
    IN { [name |-> "async_set_temperature", kwargs |-> k, arg |-> ""] :
           k \in {single, range, Merge(single, range)} }
       \cup { [name |-> "async_set_hvac_mode", kwargs |-> EmptyDict, arg |-> m] :
                m \in {"off", "heat"} }
       \cup { [name |-> "async_set_fan_mode", kwargs |-> EmptyDict, arg |-> "Max (4/4)"],
              [name |-> "async_set_swing_mode", kwargs |-> EmptyDict, arg |-> "Vertical"],
              [name |-> "async_turn_on", kwargs |-> EmptyDict, arg |-> ""],
              [name |-> "async_turn_off", kwargs |-> EmptyDict, arg |-> ""] }

\* seconds the clock advances by between two steps
ClockSteps == {7, 8}

\* a coroutine that is not suspended runs on: nothing else happens meanwhile
Running(f) == f.pc \notin {"idle", "done"} /\ f.wait = "no"

Quiet == ~Running(upd) /\ ~Running(cmd) /\ ~Running(acc)

ClientAtRest ==
    /\ call = [t \in {1} |-> "none"]
    /\ sv = [t \in {1} |-> IdleVerify]
    /\ op = [t \in {1} |-> IdleOp]
    /\ open = EmptyDict
    /\ cmp = IdleCompare
    /\ pair = IdlePair
    /\ setup = IdleSetup

\* one entity and its device, created by async_setup_entry for Celsius
InitAdapter ==
    /\ ClientAtRest
    /\ flow = IdleFlow
    /\ now = StartTime
    /\ dev = NewDevice
    /\ ent = NewClimate(FALSE)
    /\ cmd = IdleCommand
    /\ upd = IdleUpdate
    /\ acc = IdleAccess

clientVars == <<call, sv, op, open, cmp, pair, setup>>

Tick ==
    /\ Quiet
    /\ \E seconds \in ClockSteps :
         /\ now + seconds <= StartTime + MaxElapsed
         /\ now' = now + seconds
    /\ UNCHANGED <<clientVars, flow, dev, ent, cmd, upd, acc>>

\* Home Assistant polls: async_update up to its first await. The model
\* follows one poll and one command, which may overlap in either order
StartUpdate ==
    /\ Quiet
    /\ upd.pc = "idle"
    /\ upd' = IF SettingValues(ent)
              THEN [IdleUpdate EXCEPT !.pc = "done", !.skipped = TRUE]
              ELSE [IdleUpdate EXCEPT !.pc = "refresh", !.wait = "read",
                                      !.after_failure = cmd.pc = "done" /\ cmd.failed,
                                      !.reads = 1]
    /\ UNCHANGED <<clientVars, flow, now, dev, ent, cmd, acc>>

\* async_update reaches an accessor: the field is skipped, or _get_info
\* answers from the snapshot, or it awaits _refresh_device_info_async
UpdateStep ==
    /\ Running(upd)
    /\ IF UpdateSkips(upd, ent, now) # ""
       THEN /\ upd' = IF UpdateSkips(upd, ent, now) = "done" THEN UpdateDone(upd)
                      ELSE [upd EXCEPT !.pc = UpdateSkips(upd, ent, now)]
            /\ ent' = ent
       ELSE IF NeedsRefresh(dev, now)
       THEN /\ upd' = [upd EXCEPT !.wait = "read", !.gets = @ + 1, !.reads = @ + 1]
            /\ ent' = ent
       ELSE LET r == UpdateAfterGet(upd, ent, dev, now)
            IN /\ ent' = r.ent
               /\ upd' = [r.upd EXCEPT !.changed = @ \cup ChangedDisplay(ent, r.ent),
                                       !.gets = @ + 1]
    /\ UNCHANGED <<clientVars, flow, now, dev, cmd, acc>>

\* the getDeviceInfoAsync that async_update awaits returns; events: what
\* the read can meet
UpdateReadDoneFrom(events) ==
    /\ Quiet
    /\ upd.wait = "read"
    /\ \E event \in events :
         LET info == GetDeviceInfoOutcome(event).value
             d == Refreshed(dev, info, now)
             u == [upd EXCEPT !.wait = "no", !.read_failed = ReadFailed(event),
                              !.delivered = @ \/ DOMAIN info # {}]
             r == UpdateAfterGet(u, ent, d, now)
         IN /\ dev' = d
            /\ IF upd.pc = "refresh"
               THEN /\ upd' = [u EXCEPT !.pc = "room"]
                    /\ ent' = ent
               ELSE /\ ent' = r.ent
                    /\ upd' = [r.upd EXCEPT
                                 !.changed = @ \cup ChangedDisplay(ent, r.ent)]
    /\ UNCHANGED <<clientVars, flow, now, cmd, acc>>

UpdateReadDone == UpdateReadDoneFrom(AdapterReadEvents)

\* Home Assistant calls a service of the entity; requests: the calls made
StartCommandFrom(requests) ==
    /\ Quiet
    /\ cmd.pc = "idle"
    /\ \E request \in requests :
         LET r == BeginCommand(request.name, request.kwargs, request.arg, ent, now)
         IN /\ cmd' = r.cmd
            /\ ent' = r.ent
    /\ UNCHANGED <<clientVars, flow, now, dev, upd, acc>>

StartCommand == StartCommandFrom(Requests(ent))

\* setTemperature reaches mode = await self.getMode()
CommandStep ==
    /\ Running(cmd)
    /\ cmd.pc = "t_mode"
    /\ cmd' = IF NeedsRefresh(dev, now) THEN [cmd EXCEPT !.wait = "read"]
              ELSE AfterGetMode(cmd, ent, Get(dev, "Mode", sAUTO), now)
    /\ UNCHANGED <<clientVars, flow, now, dev, ent, upd, acc>>

\* the getDeviceInfoAsync that getMode awaits returns
CommandReadDone ==
    /\ Quiet
    /\ cmd.wait = "read"
    /\ \E event \in AdapterReadEvents :
         LET d == Refreshed(dev, GetDeviceInfoOutcome(event).value, now)
         IN /\ dev' = d
            /\ cmd' = [AfterGetMode(cmd, ent, Get(d, "Mode", sAUTO), now)
                         EXCEPT !.read_failed = ReadFailed(event)]
    /\ UNCHANGED <<clientVars, flow, now, ent, upd, acc>>

\* the sendAndVerifyAsync that the command awaits returns
CommandWriteDone ==
    /\ Quiet
    /\ cmd.wait = "write"
    /\ \E result \in SendAndVerifyResults :
         LET c == [cmd EXCEPT !.last_result = result, !.failed = @ \/ ~result]
             r == CommandAfterWrite(c, ent, result, now)
         IN /\ dev' = AfterWrite(dev, result)
            /\ ent' = r.ent
            /\ cmd' = r.cmd
    /\ UNCHANGED <<clientVars, flow, now, upd, acc>>

NextAdapter ==
    \/ Tick
    \/ StartUpdate
    \/ UpdateStep
    \/ UpdateReadDone
    \/ StartCommand
    \/ CommandStep
    \/ CommandReadDone
    \/ CommandWriteDone

SpecAdapter == InitAdapter /\ [][NextAdapter]_vars

\* ------------------------------------------------------------------------
\* A command whose awaited call raises
\* ------------------------------------------------------------------------
\* changed: no finally clause, the in-progress flag stays as it is
CommandAfterRaiseWithoutFinally(c, e, t) ==
    LET c1 == [c EXCEPT !.wait = "no", !.failed = TRUE, !.raised = TRUE]
    IN CASE c.name = "async_set_temperature" ->
              LET e1 == [e EXCEPT !._last_temp_set_time = 0]
              IN IF c.pc \in {"t_mode", "t_write"} THEN RangePart(c1, e1, t)
                 ELSE [cmd |-> Done(c1), ent |-> e1]
         [] c.name \in {"async_set_hvac_mode", "async_turn_on", "async_turn_off"} ->
              [cmd |-> Done(c1), ent |-> [e EXCEPT !._last_mode_set_time = 0]]
         [] c.name = "async_set_fan_mode" ->
              [cmd |-> Done(c1), ent |-> [e EXCEPT !._last_fan_set_time = 0]]
         [] c.name = "async_set_swing_mode" ->
              [cmd |-> Done(c1), ent |-> [e EXCEPT !._last_swing_set_time = 0]]

\* changed: the except clause leaves the timestamp as the command set it
CommandAfterRaiseKeepingTime(c, e, t) ==
    LET c1 == [c EXCEPT !.wait = "no", !.failed = TRUE, !.raised = TRUE]
    IN CASE c.name = "async_set_temperature" ->
              LET e1 == [e EXCEPT !._setting_temperature = FALSE]
              IN IF c.pc \in {"t_mode", "t_write"} THEN RangePart(c1, e1, t)
                 ELSE [cmd |-> Done(c1), ent |-> e1]
         [] c.name \in {"async_set_hvac_mode", "async_turn_on", "async_turn_off"} ->
              [cmd |-> Done(c1), ent |-> [e EXCEPT !._setting_mode = FALSE]]
         [] c.name = "async_set_fan_mode" ->
              [cmd |-> Done(c1), ent |-> [e EXCEPT !._setting_fan = FALSE]]
         [] c.name = "async_set_swing_mode" ->
              [cmd |-> Done(c1), ent |-> [e EXCEPT !._setting_swing = FALSE]]

\* an entity command from an exception raised in its try block by the call it
\* awaits: the except clause, the finally clause, and what follows them
CommandAfterRaise(c, e, t) ==
    LET c1 == [c EXCEPT !.wait = "no", !.failed = TRUE, !.raised = TRUE]
    IN CASE c.name = "async_set_temperature" ->
              LET e1 == [e EXCEPT !._last_temp_set_time = 0,
                                  !._setting_temperature = FALSE]
              IN IF c.pc \in {"t_mode", "t_write"} THEN RangePart(c1, e1, t)
                 ELSE [cmd |-> Done(c1), ent |-> e1]
         [] c.name \in {"async_set_hvac_mode", "async_turn_on", "async_turn_off"} ->
              [cmd |-> Done(c1),
               ent |-> [e EXCEPT !._last_mode_set_time = 0, !._setting_mode = FALSE]]
         [] c.name = "async_set_fan_mode" ->
              [cmd |-> Done(c1),
               ent |-> [e EXCEPT !._last_fan_set_time = 0, !._setting_fan = FALSE]]
         [] c.name = "async_set_swing_mode" ->
              [cmd |-> Done(c1),
               ent |-> [e EXCEPT !._last_swing_set_time = 0, !._setting_swing = FALSE]]

\* the device method that the command awaits raises
CommandRaises ==
    /\ Quiet
    /\ cmd.wait \in {"read", "write"}
    /\ LET r == CommandAfterRaise(cmd, ent, now)
       IN /\ ent' = r.ent
          /\ cmd' = r.cmd
    /\ UNCHANGED <<clientVars, flow, now, dev, upd, acc>>

NextRaising ==
    \/ Tick
    \/ StartUpdate
    \/ UpdateStep
    \/ UpdateReadDone
    \/ StartCommand
    \/ CommandStep
    \/ CommandReadDone
    \/ CommandWriteDone
    \/ CommandRaises

SpecRaising == InitAdapter /\ [][NextRaising]_vars

\* ------------------------------------------------------------------------
\* Two commands of the same kind, one after the other
\* ------------------------------------------------------------------------
\* the timestamp a command sets: _last_temp_set_time, _last_mode_set_time,
\* _last_fan_set_time, _last_swing_set_time
KindOf(name) ==
    CASE name = "async_set_temperature" -> "temp"
      [] name = "async_set_fan_mode" -> "fan"
      [] name = "async_set_swing_mode" -> "swing"
      [] OTHER -> "mode"

LastSetTime(e, kind) ==
    CASE kind = "temp" -> e._last_temp_set_time
      [] kind = "mode" -> e._last_mode_set_time
      [] kind = "fan" -> e._last_fan_set_time
      [] kind = "swing" -> e._last_swing_set_time

\* the calls made: a setpoint, a fan speed, the unit switched on and off
SeriesRequests ==
    { r \in Requests(ent) :
        \/ r.name \in {"async_turn_on", "async_turn_off", "async_set_fan_mode"}
        \/ r.name = "async_set_temperature" /\ DOMAIN r.kwargs = {"temperature"} }

StartFirstCommand == StartCommandFrom(SeriesRequests)

\* Home Assistant calls a service of the entity after an earlier call of the
\* same kind has returned with its write verified
StartNextCommand ==
    /\ Quiet
    /\ cmd.pc = "done"
    /\ cmd.earlier = <<>>
    /\ ~cmd.failed
    /\ \E request \in SeriesRequests :
         LET r == BeginCommand(request.name, request.kwargs, request.arg, ent, now)
         IN /\ KindOf(request.name) = KindOf(cmd.name)
            /\ cmd' = [r.cmd EXCEPT !.earlier =
                         <<[name |-> cmd.name,
                            at |-> LastSetTime(ent, KindOf(cmd.name))]>>]
            /\ ent' = r.ent
    /\ UNCHANGED <<clientVars, flow, now, dev, upd, acc>>

NextSeries ==
    \/ Tick
    \/ StartUpdate
    \/ UpdateStep
    \/ UpdateReadDone
    \/ StartFirstCommand
    \/ StartNextCommand
    \/ CommandStep
    \/ CommandReadDone
    \/ CommandWriteDone
    \/ CommandRaises

SpecSeries == InitAdapter /\ [][NextSeries]_vars

\* ------------------------------------------------------------------------
\* The poll against every report of the unit, beside a command that sets
\* the HVAC mode
\* ------------------------------------------------------------------------
\* self._attr_hvac_modes
HvacModes == {"off", "heat", "cool", "dry", "fan_only", "heat_cool"}

\* the calls that set the HVAC mode: every mode the entity offers, on, off
ModeRequests ==
    { [name |-> "async_set_hvac_mode", kwargs |-> EmptyDict, arg |-> m] :
        m \in HvacModes }
    \cup { [name |-> n, kwargs |-> EmptyDict, arg |-> ""] :
             n \in {"async_turn_on", "async_turn_off"} }

StartModeCommand == StartCommandFrom(ModeRequests)

PollReadDone == UpdateReadDoneFrom(DeviceReadEvents)

NextPoll ==
    \/ Tick
    \/ StartUpdate
    \/ UpdateStep
    \/ PollReadDone
    \/ StartModeCommand
    \/ CommandWriteDone

SpecPoll == InitAdapter /\ [][NextPoll]_vars

\* ------------------------------------------------------------------------
\* The device on its own: its methods called one after the other
\* ------------------------------------------------------------------------
\* the methods called: the accessors getMode, isPowerOn, getRoomTemperature
\* and getTargetTemperature, and the set methods setTemperature (22 degrees)
\* and setFanSpeed (HIGH)
DeviceMethods ==
    {"getMode", "isPowerOn", "getRoomTemperature", "getTargetTemperature",
     "setTemperature", "setFanSpeed"}

\* the key an accessor hands to _get_info, and the default with it
AccessKey(method) ==
    CASE method = "isPowerOn" -> "Drive"
      [] method = "getRoomTemperature" -> "InletTemp"
      [] OTHER -> "Mode"

AccessDefault(key) ==
    CASE key = "Mode" -> sAUTO
      [] key = "Drive" -> sOFF
      [] OTHER -> None

\* a method of the device from its call to its first await
BeginAccess(method) ==
    IF method = "setFanSpeed"
    THEN [IdleAccess EXCEPT !.pc = "write", !.wait = "write", !.method = method,
                            !.attributes = [FanSpeed |-> StrValue(sHIGH)]]
    ELSE [IdleAccess EXCEPT
            !.pc = IF method \in {"getTargetTemperature", "setTemperature"}
                   THEN "mode" ELSE "get",
            !.method = method, !.key = AccessKey(method)]

\* a method of the device from the return of the _get_info it is at, with
\* the attributes d holds, up to its next await (or its end)
AccessAfterGet(a, d) ==
    LET value == Get(d, a.key, AccessDefault(a.key))
    IN IF a.pc = "mode"
       THEN IF a.method = "getTargetTemperature"
            THEN [a EXCEPT !.pc = "get", !.mode = value, !.value = value,
                           !.key = GetTargetTemperatureKey(value)]
            ELSE [a EXCEPT !.pc = "write", !.wait = "write", !.mode = value,
                           !.value = value, !.key = SetTemperatureKey(value),
                           !.attributes = TemperatureWrite(SetTemperatureKey(value),
                                                           Float(2200))]
       ELSE [a EXCEPT !.pc = "done", !.value = value]

InitDevice == InitAdapter

CallDevice ==
    /\ Quiet
    /\ acc.pc \in {"idle", "done"}
    /\ \E method \in DeviceMethods : acc' = BeginAccess(method)
    /\ UNCHANGED <<clientVars, flow, now, dev, ent, cmd, upd>>

\* the method reaches _get_info: it answers from the snapshot, or awaits
\* _refresh_device_info_async
DeviceStep ==
    /\ Running(acc)
    /\ acc' = IF NeedsRefresh(dev, now) THEN [acc EXCEPT !.wait = "read"]
              ELSE [AccessAfterGet(acc, dev) EXCEPT !.served = "cache"]
    /\ UNCHANGED <<clientVars, flow, now, dev, ent, cmd, upd>>

\* the getDeviceInfoAsync that _get_info awaits returns
DeviceReadDone ==
    /\ Quiet
    /\ acc.wait = "read"
    /\ \E event \in DeviceReadEvents :
         LET d == Refreshed(dev, GetDeviceInfoOutcome(event).value, now)
         IN /\ dev' = d
            /\ acc' = [AccessAfterGet([acc EXCEPT !.wait = "no"], d)
                         EXCEPT !.served = "network",
                                !.read_failed = ReadFailed(event)]
    /\ UNCHANGED <<clientVars, flow, now, ent, cmd, upd>>

\* the sendAndVerifyAsync that the set method awaits returns
DeviceWriteDone ==
    /\ Quiet
    /\ acc.wait = "write"
    /\ \E result \in SendAndVerifyResults :
         /\ dev' = AfterWrite(dev, result)
         /\ acc' = [acc EXCEPT !.pc = "done", !.wait = "no", !.success = result]
    /\ UNCHANGED <<clientVars, flow, now, ent, cmd, upd>>

NextDevice ==
    \/ Tick
    \/ CallDevice
    \/ DeviceStep
    \/ DeviceReadDone
    \/ DeviceWriteDone

SpecDevice == InitDevice /\ [][NextDevice]_vars

\* ------------------------------------------------------------------------
\* An entity command down to the websocket: the device's reads and verified
\* writes are the client's operations, with everything the controller and
\* the network can do to each exchange
\* ------------------------------------------------------------------------
\* max_retries=3 in the signature of sendAndVerifyAsync
DefaultMaxRetries == 3

InitHost == InitAdapter

\* what the controller answers to the operations of a command. To a
\* setRequest: a frame that is not XML, <Success/>, <Error>boom</Error>. To
\* the getRequest for the unit: a frame that is not XML, no node for the
\* unit, the unit running in HEAT, and, after a write, the unit reporting
\* every written value as the client formats it
HostFrames(name) ==
    IF name = "sendAsync"
    THEN { NotXml, XmlFrame(Packet(<<SuccessElement>>)),
           XmlFrame(Packet(<<El("Error", EmptyDict, sBoom, <<>>)>>)) }
    ELSE { NotXml, XmlFrame(DetailDoc(<<>>)),
           XmlFrame(DetailDoc(<<Mnet(Info(sON, [Mode |-> sHEAT]))>>)) }
         \cup (IF cmd.wait = "write"
               THEN {XmlFrame(DetailDoc(<<Mnet([k \in DOMAIN cmd.attributes |->
                                                  PyStr(cmd.attributes[k])])>>))}
               ELSE {})

HostReceive(t) == ReceiveFrom(t, HostFrames(op[t].name))

\* _refresh_device_info_async calls getDeviceInfoAsync
HostCallsRead(t) ==
    /\ cmd.wait = "read"
    /\ call[t] = "none"
    /\ call' = [call EXCEPT ![t] = "getDeviceInfoAsync"]
    /\ op' = [op EXCEPT ![t] = StartOp("getDeviceInfoAsync", 1)]
    /\ UNCHANGED <<sv, open, cmp, pair, setup, flow, adapterVars>>

\* getDeviceInfoAsync has returned: _refresh_device_info_async stores what
\* it returned, and setTemperature goes on from its getMode
HostReadReturns(t) ==
    /\ cmd.wait = "read"
    /\ call[t] = "getDeviceInfoAsync"
    /\ op[t].pc = "returned"
    /\ LET d == Refreshed(dev, op[t].result.value, now)
       IN /\ dev' = d
          /\ cmd' = [AfterGetMode(cmd, ent, Get(d, "Mode", sAUTO), now)
                       EXCEPT !.read_failed = ReadFailed(op[t].event)]
    /\ call' = [call EXCEPT ![t] = "none"]
    /\ op' = [op EXCEPT ![t] = IdleOp]
    /\ UNCHANGED <<sv, open, cmp, pair, setup, flow, now, ent, upd, acc>>

\* a set method of the device calls sendAndVerifyAsync
HostCallsWrite(t) ==
    /\ cmd.wait = "write"
    /\ call[t] = "none"
    /\ call' = [call EXCEPT ![t] = "sendAndVerifyAsync"]
    /\ sv' = [sv EXCEPT ![t] = Begin(cmd.attributes, DefaultMaxRetries)]
    /\ UNCHANGED <<op, open, cmp, pair, setup, flow, adapterVars>>

\* sendAndVerifyAsync has returned: the rest of the set method and of the
\* entity command, up to its next await or its end
HostWriteReturns(t) ==
    /\ cmd.wait = "write"
    /\ call[t] = "sendAndVerifyAsync"
    /\ sv[t].pc = "done"
    /\ LET result == sv[t].result
           c == [cmd EXCEPT !.last_result = result, !.failed = @ \/ ~result]
           r == CommandAfterWrite(c, ent, result, now)
       IN /\ dev' = AfterWrite(dev, result)
          /\ ent' = r.ent
          /\ cmd' = r.cmd
    /\ call' = [call EXCEPT ![t] = "none"]
    /\ sv' = [sv EXCEPT ![t] = IdleVerify]
    /\ UNCHANGED <<op, open, cmp, pair, setup, flow, now, upd, acc>>

NextHost ==
    \/ StartCommand
    \/ CommandStep
    \/ \E t \in Tasks : HostCallsRead(t)
    \/ \E t \in Tasks : HostReadReturns(t)
    \/ \E t \in Tasks : HostCallsWrite(t)
    \/ \E t \in Tasks : HostWriteReturns(t)
    \/ \E t \in Tasks : Sending(t)
    \/ \E t \in Tasks : SendReturned(t)
    \/ \E t \in Tasks : Settling(t)
    \/ \E t \in Tasks : Verifying(t)
    \/ \E t \in Tasks : RetryDelay(t)
    \/ \E t \in Tasks : Connect(t)
    \/ \E t \in Tasks : Send(t)
    \/ \E t \in Tasks : HostReceive(t)
    \/ \E t \in Tasks : Finally(t)

\* the event loop runs every coroutine that can run, and each await of the
\* client ends: connecting, receiving and closing have timeouts, the sleeps
\* are finite
SpecHost == InitHost /\ [][NextHost]_vars /\ WF_vars(NextHost)

\* ------------------------------------------------------------------------
\* A setpoint shown in Fahrenheit and written back as it is shown
\* ------------------------------------------------------------------------
\* MIN_TEMP_C and MAX_TEMP_C
MinTempC == 16
MaxTempC == 30

\* the setpoints of the unit: every tenth of a degree of the range
Setpoints == { 100 * MinTempC + 10 * k : k \in 0..(10 * (MaxTempC - MinTempC)) }

\* an entity that displays Fahrenheit, after a poll of the unit running in a
\* mode with one setpoint, which the controller reports with one decimal
InitShown ==
    /\ ClientAtRest
    /\ flow = IdleFlow
    /\ now = StartTime
    /\ cmd = IdleCommand
    /\ upd = IdleUpdate
    /\ acc = IdleAccess
    /\ \E celsius \in Setpoints, mode \in {sCOOL, sHEAT, sDRY} :
         LET info == Merge([SetTemp1 |-> FloatRepr(celsius),
                            SetTemp2 |-> FloatRepr(celsius)],
                           Info(sON, [Mode |-> mode]))
         IN /\ dev = [NewDevice EXCEPT !._attributes = info,
                                       !._last_info_time_s = StartTime,
                                       !.fetched_at = StartTime]
            /\ ent = [NewClimate(TRUE) EXCEPT
                        !._current_temperature = ToFloat(info["InletTemp"]),
                        !._fan_mode = info["FanSpeed"],
                        !._swing_mode = info["AirDirection"],
                        !._hvac_mode = HvacOfMode(mode),
                        !._last_hvac_mode = HvacOfMode(mode),
                        !._target_temperature =
                            ToFloat(info[GetTargetTemperatureKey(mode)]),
                        !._target_temperature_high = ToFloat(info["SetTemp1"]),
                        !._target_temperature_low = ToFloat(info["SetTemp2"])]

\* Home Assistant calls async_set_temperature with the setpoint the entity
\* shows (its property target_temperature)
WriteBackShown ==
    /\ Quiet
    /\ cmd.pc = "idle"
    /\ Displayed(ent).target_temperature # NoFloat
    /\ LET r == BeginCommand("async_set_temperature",
                             [temperature |-> Displayed(ent).target_temperature[1]],
                             "", ent, now)
       IN /\ cmd' = r.cmd
          /\ ent' = r.ent
    /\ UNCHANGED <<clientVars, flow, now, dev, upd, acc>>

NextShown ==
    \/ WriteBackShown
    \/ CommandStep
    \/ CommandWriteDone

SpecShown == InitShown /\ [][NextShown]_vars

\* ------------------------------------------------------------------------
\* The setup flow: ConfigFlow
\* ------------------------------------------------------------------------
\* what the user submits in the form of the step "user": every field of
\* STEP_USER_DATA_SCHEMA is a str, and any of the address, the user name and
\* the password may be empty
UserInputs ==
    { [controller_id |-> controller_id, ip_address |-> ip_address,
       username |-> username, password |-> password,
       temperature_unit |-> temperature_unit] :
        controller_id \in {"1", "2"},
        ip_address \in {"", "192.0.2.10"}, username \in {"", "admin"},
        password \in {"", "secret"},
        temperature_unit \in {"celsius", "fahrenheit"} }

\* what the probe of authenticate can meet: the session is not opened, the
\* send fails, the controller closes, nothing arrives in time, or a response
\* arrives (a discovery response, or a frame that is not XML)
ProbeEvents ==
    { ConnectFailed, SendFailed, Closed, Timeout,
      Received(NotXml), Received(XmlFrame(DiscoveryDoc(<<>>))) }

\* authenticate(endpoint) -> bool: true iff a response is received without
\* a protocol-level close
AuthenticateOutcome(event) == event.kind = "frame"

\* what the discovery of the flow returns, "raised" when it raises
FlowDevices ==
    { <<>>,
      <<[id |-> "1", name |-> "Lobby"]>>,
      <<[id |-> "1", name |-> "Lobby"], [id |-> "2", name |-> "Office"]>> }

FlowDiscoveryOutcomes ==
    { [raised |-> TRUE, devices |-> <<>>] }
    \cup { [raised |-> FALSE, devices |-> devices] : devices \in FlowDevices }

\* what the user submits in the form of the step "device_names": nothing
\* changed, or a name of his own for the first device
DeviceNameInputs == { EmptyDict, [device_1_name |-> "Hall"] }

\* self.async_show_form(step_id="user", ..., errors=errors) at the end of
\* async_step_user, for the exception caught
ShowError(f, base) ==
    [f EXCEPT !.pc = "form", !.result = FlowResult("form", "user", [base |-> base])]

\* except Exception in the inner try: raise CannotConnect(...), which
\* except CannotConnect of the outer try catches
ConnectionTestFailed(f) == ShowError(f, "cannot_connect")

\* async_step_user(user_input) up to its first await
BeginStepUser(f, user_input) ==
    LET g == [f EXCEPT !.user_input = user_input, !.config_data = user_input,
                       !.auth_success = "none", !.devices = <<>>,
                       !.probe = NoEvent]
    IN IF user_input["ip_address"] = "" THEN ShowError(g, "cannot_connect")
       ELSE IF user_input["username"] = "" THEN ShowError(g, "invalid_auth")
       ELSE [g EXCEPT !.pc = "authenticate"]

\* changed: discovery is started whatever authenticate returned
AfterAuthenticateUnchecked(f, auth_success) ==
    [f EXCEPT !.auth_success = IF auth_success THEN "True" ELSE "False",
              !.pc = "getDevices"]

\* async_step_user from the return of authenticate to its next await
AfterAuthenticate(f, auth_success) ==
    IF ~auth_success
    THEN ConnectionTestFailed([f EXCEPT !.auth_success = "False"])
    ELSE [f EXCEPT !.auth_success = "True", !.pc = "getDevices"]

\* changed: a single discovered device is refused as none is
AfterGetDevicesNeedsTwo(f, outcome) ==
    IF outcome.raised THEN ConnectionTestFailed(f)
    ELSE IF Len(outcome.devices) <= 1
    THEN ConnectionTestFailed([f EXCEPT !.devices = outcome.devices])
    ELSE [f EXCEPT !.devices = outcome.devices,
                   !.discovered_devices = outcome.devices, !.pc = "form",
                   !.result = FlowResult("form", "device_names", EmptyDict)]

\* async_step_user from the return of getDevicesAsync to its end, which is
\* async_step_device_names() showing its form when there are devices
AfterGetDevices(f, outcome) ==
    IF outcome.raised THEN ConnectionTestFailed(f)
    ELSE IF outcome.devices = <<>>
    THEN ConnectionTestFailed([f EXCEPT !.devices = outcome.devices])
    ELSE [f EXCEPT !.devices = outcome.devices,
                   !.discovered_devices = outcome.devices, !.pc = "form",
                   !.result = FlowResult("form", "device_names", EmptyDict)]

\* device_names of async_step_device_names
DeviceNames(devices, user_input) ==
    [id \in {devices[i].id : i \in DOMAIN devices} |->
       LET device == devices[CHOOSE i \in DOMAIN devices : devices[i].id = id]
           field == IF id = "1" THEN "device_1_name" ELSE "device_2_name"
       IN DictGet2(user_input, field, device.name)]

\* async_step_device_names(user_input) with a unique id not configured yet
CreateEntry(f, user_input) ==
    [f EXCEPT !.pc = "finished",
              !.result = FlowResult("create_entry", "", EmptyDict),
              !.entry = [data |-> f.config_data,
                         device_names |-> DeviceNames(f.discovered_devices, user_input)]]

\* _abort_if_unique_id_configured raises: the flow ends with no entry
Abort(f) ==
    [f EXCEPT !.pc = "finished", !.result = FlowResult("abort", "", EmptyDict)]

InitFlow ==
    /\ ClientAtRest
    /\ AdapterAtRest
    /\ flow = IdleFlow

\* Home Assistant starts the flow: async_step_user(None) shows the form
ShowUserForm ==
    /\ flow.pc = "idle"
    /\ flow' = [flow EXCEPT !.pc = "form",
                            !.result = FlowResult("form", "user", EmptyDict)]
    /\ UNCHANGED <<clientVars, adapterVars>>

\* the user submits the form of the step "user"
SubmitUser ==
    /\ flow.pc = "form"
    /\ flow.result.step_id = "user"
    /\ \E user_input \in UserInputs : flow' = BeginStepUser(flow, user_input)
    /\ UNCHANGED <<clientVars, adapterVars>>

AuthenticateReturns ==
    /\ flow.pc = "authenticate"
    /\ \E event \in ProbeEvents :
         flow' = AfterAuthenticate([flow EXCEPT !.probe = event],
                                   AuthenticateOutcome(event))
    /\ UNCHANGED <<clientVars, adapterVars>>

GetDevicesReturns ==
    /\ flow.pc = "getDevices"
    /\ \E outcome \in FlowDiscoveryOutcomes : flow' = AfterGetDevices(flow, outcome)
    /\ UNCHANGED <<clientVars, adapterVars>>

\* the user submits the form of the step "device_names"
SubmitDeviceNames ==
    /\ flow.pc = "form"
    /\ flow.result.step_id = "device_names"
    /\ \E user_input \in DeviceNameInputs, configured \in BOOLEAN :
         flow' = IF configured THEN Abort(flow) ELSE CreateEntry(flow, user_input)
    /\ UNCHANGED <<clientVars, adapterVars>>

NextFlow ==
    \/ ShowUserForm
    \/ SubmitUser
    \/ AuthenticateReturns
    \/ GetDevicesReturns
    \/ SubmitDeviceNames

SpecFlow == InitFlow /\ [][NextFlow]_vars

\* ------------------------------------------------------------------------
\* Properties
\* ------------------------------------------------------------------------
\* the comparison policy: a key of the read-back matches within 0.5 when it
\* is a temperature key and both values are numbers, and as a string otherwise
PolicyMatch(key, expected_value, device_info) ==
    /\ key \in DOMAIN device_info
    /\ LET e == ParseFloat(PyStr(expected_value))
           a == ParseFloat(device_info[key])
       IN IF key \in TempKeys /\ e.ok /\ ~e.nan /\ a.ok /\ ~a.nan
          THEN Abs(e.h - a.h) <= 50
          ELSE device_info[key] = PyStr(expected_value)

LastRoundVerified(s) ==
    /\ s.sends >= 1
    /\ s.success
    /\ s.read
    /\ DOMAIN s.device_info # {}
    /\ \A key \in DOMAIN s.attributes :
         PolicyMatch(key, s.attributes[key], s.device_info)

\* C1: sendAndVerifyAsync returns True exactly when, in the last round it
\* ran, the send was accepted, the read-back was a non-empty attribute map
\* and every written key matched its read-back value under the comparison
\* policy; otherwise it returns False.
C1_TrueIffLastRoundVerified ==
    \A t \in Tasks :
        sv[t].pc = "done" => (sv[t].result <=> LastRoundVerified(sv[t]))

C1_Witness ==
    \E t \in Tasks :
        /\ sv[t].pc = "done"
        /\ sv[t].result
        /\ sv[t].attempt >= 1
        /\ DOMAIN sv[t].attributes # {}

\* C2 as stated: for every max_retries, a finished sendAndVerifyAsync has
\* made at most max_retries sends and read-backs and at least one round.
C2_AtMostMaxRetriesAtLeastOne ==
    \A t \in Tasks :
        sv[t].pc = "done" =>
            /\ sv[t].sends <= sv[t].max_retries
            /\ sv[t].reads <= sv[t].max_retries
            /\ sv[t].sends >= 1

\* C2 amended: sendAndVerifyAsync never makes more than max_retries sends,
\* nor more read-backs than sends; with max_retries >= 1 it has made at
\* least one round when it ends, and with max_retries <= 0 it makes no
\* round at all and returns False.
C2_RoundsWithinBudget ==
    \A t \in Tasks :
        sv[t].pc # "idle" =>
            /\ sv[t].sends <= (IF sv[t].max_retries > 0 THEN sv[t].max_retries ELSE 0)
            /\ sv[t].reads <= sv[t].sends
            /\ (sv[t].pc = "done" /\ sv[t].max_retries >= 1) => sv[t].sends >= 1
            /\ sv[t].max_retries <= 0 =>
                 (sv[t].pc = "done" /\ ~sv[t].result /\ sv[t].sends = 0)

C2_Witness ==
    \E t \in Tasks :
        /\ sv[t].pc = "done"
        /\ ~sv[t].result
        /\ sv[t].max_retries >= 2
        /\ sv[t].sends = sv[t].max_retries
        /\ sv[t].reads >= 1
        /\ sv[t].reads < sv[t].sends

CompareOf(expected_value, actual) ==
    /\ cmp.evaluated
    /\ cmp.key = "SetTemp1"
    /\ cmp.expected_value = expected_value
    /\ cmp.device_info = [SetTemp1 |-> actual]

\* C3: a temperature key (SetTemp, SetTemp1, SetTemp2) whose written and
\* read-back values both parse as numbers matches exactly when the two
\* numbers differ by at most 0.5: "24" against "24.0" and against "24.5"
\* matches, against "24.75" and against "26" does not.
C3_TemperatureTolerance ==
    /\ ( /\ cmp.evaluated
         /\ cmp.key \in TempKeys
         /\ cmp.key \in DOMAIN cmp.device_info ) =>
            LET e == ParseFloat(PyStr(cmp.expected_value))
                a == ParseFloat(cmp.device_info[cmp.key])
            IN (e.ok /\ ~e.nan /\ a.ok /\ ~a.nan) =>
                  (cmp.verified <=> Abs(e.h - a.h) <= 50)
    /\ CompareOf(StrValue(s24), s24_0) => cmp.verified
    /\ CompareOf(StrValue(s24), s24_5) => cmp.verified
    /\ CompareOf(StrValue(s24), s24_75) => ~cmp.verified
    /\ CompareOf(StrValue(s24), s26) => ~cmp.verified

C3_Witness == CompareOf(StrValue(s24), s24_5) /\ cmp.verified

\* C4: a key that is not a temperature key matches only when the read-back
\* holds the key and its value is, character for character, the string form
\* of the written value.
C4_ExactStringMatch ==
    (cmp.evaluated /\ cmp.key \notin TempKeys) =>
        ( cmp.verified <=>
            /\ cmp.key \in DOMAIN cmp.device_info
            /\ cmp.device_info[cmp.key] = PyStr(cmp.expected_value) )

C4_Witness ==
    /\ cmp.evaluated
    /\ cmp.key = "Mode"
    /\ cmp.expected_value = StrValue(sCOOL)
    /\ cmp.device_info = [Mode |-> sCool]
    /\ ~cmp.verified

Echoed(s) ==
    /\ s.pc = "done"
    /\ s.success
    /\ s.read
    /\ \A key \in DOMAIN s.attributes :
         /\ key \in DOMAIN s.device_info
         /\ s.device_info[key] = PyStr(s.attributes[key])

C6_ConnectionPerOperation ==
    /\ \A c \in DOMAIN open :
         \E t \in Tasks :
            /\ op[t].pc \in {"send", "recv", "finally"}
            /\ op[t].websocket = c
            /\ open[c] = {Inst(t)}
    /\ (\A t \in Tasks : op[t].pc \in {"idle", "returned"}) => DOMAIN open = {}

C6_Witness ==
    \E t \in Tasks :
        /\ sv[t].attempt >= 1
        /\ op[t].name = "getDeviceInfoAsync"
        /\ op[t].pc = "returned"
        /\ op[t].event.kind = "timeout"
        /\ op[t].websocket # 0
        /\ DOMAIN open = {}

\* an element with the tag somewhere below the root
RECURSIVE HasTag(_, _)
HasTag(children, tag) ==
    \E i \in 1..Len(children) :
        children[i].tag = tag \/ HasTag(children[i].children, tag)

ErrorInResponse(o) ==
    /\ o.name = "sendAsync"
    /\ o.event.kind = "frame"
    /\ o.event.frame.wellFormed
    /\ HasTag(o.event.frame.root.children, "Error")

RejectedSendFailsRound(t) ==
    ( /\ sv[t].pc = "AwaitSend"
      /\ op[t].pc = "returned"
      /\ ErrorInResponse(op[t])
      /\ sv'[t] # sv[t] ) =>
        /\ sv'[t].pc \in {"RetryDelay", "done"}
        /\ ~sv'[t].result
        /\ ~sv'[t].read
        /\ sv'[t].reads = sv[t].reads

\* C7: whenever the response to a set command holds an Error element,
\* anywhere below the root and also beside a Success element, sendAsync
\* returns False, and sendAndVerifyAsync ends that round as failed without
\* a read-back.
C7_ErrorElementFailsRound ==
    /\ [](\A t \in Tasks :
            (op[t].pc \in {"finally", "returned"} /\ ErrorInResponse(op[t])) =>
                (~op[t].result.raised /\ op[t].result.value = FALSE))
    /\ [][\A t \in Tasks : RejectedSendFailsRound(t)]_vars

C7_Witness ==
    \E t \in Tasks :
        /\ sv[t].pc = "AwaitSend"
        /\ op[t].pc = "returned"
        /\ ErrorInResponse(op[t])
        /\ HasTag(op[t].event.frame.root.children, "Success")
        /\ op[t].result.value = FALSE

\* C8: when the controller rejects a set command with <Error Message="X"/>,
\* the failure sendAsync reports carries the message X.
C8_RejectionCarriesMessage ==
    \A t \in Tasks :
        (op[t].pc \in {"finally", "returned"} /\ ErrorInResponse(op[t])) =>
            LET error_node == FindDescendant(op[t].event.frame.root, "Error")[1]
            IN "Message" \in DOMAIN error_node.attrib =>
                  op[t].result.error_msg = error_node.attrib["Message"]

\* C9: once the set command is sent, sendAsync returns True when no frame
\* arrives within the response timeout and when the frame is not XML; it
\* returns False only for a connection or send failure or an Error element,
\* and it never raises.
C9_NoAcknowledgementIsSuccess ==
    \A t \in Tasks :
        (op[t].name = "sendAsync" /\ op[t].pc \in {"finally", "returned"}) =>
            /\ ~op[t].result.raised
            /\ op[t].event.kind = "timeout" => op[t].result.value = TRUE
            /\ (op[t].event.kind = "frame" /\ ~op[t].event.frame.wellFormed) =>
                  op[t].result.value = TRUE
            /\ op[t].result.value = FALSE =>
                  \/ op[t].event.kind \in {"connect_failed", "send_failed", "closed"}
                  \/ ErrorInResponse(op[t])

C9_Witness ==
    \E t \in Tasks :
        /\ op[t].name = "sendAsync"
        /\ op[t].pc = "returned"
        /\ op[t].event.kind = "frame"
        /\ ~op[t].event.frame.wellFormed
        /\ op[t].result.value = TRUE

\* C10: a device read that failed (connection failure, response timeout,
\* malformed XML) reaches the caller of getDeviceInfoAsync as an error.
C10_FailedReadPropagates ==
    \A t \in Tasks :
        ( /\ op[t].name = "getDeviceInfoAsync"
          /\ op[t].pc = "returned"
          /\ \/ op[t].event.kind \in {"connect_failed", "send_failed", "closed", "timeout"}
             \/ op[t].event.kind = "frame" /\ ~op[t].event.frame.wellFormed ) =>
            op[t].result.raised

\* positions in a document: the i-th child of the root, its j-th child, ...
MaxChildren == 2
Positions == 1..MaxChildren

HasChild(e, i, tag) == i <= Len(e.children) /\ e.children[i].tag = tag

\* a position comes before another in document order
Before(p, q) ==
    \E n \in 1..Len(p) : p[n] < q[n] /\ \A m \in 1..(n - 1) : p[m] = q[m]

\* the records of the response's MnetList that have both Group and
\* GroupNameWeb set (present and not empty), by position
ListedRecords(root) ==
    { p \in Positions \X Positions \X Positions \X Positions :
        /\ HasChild(root, p[1], "DatabaseManager")
        /\ HasChild(root.children[p[1]], p[2], "ControlGroup")
        /\ HasChild(root.children[p[1]].children[p[2]], p[3], "MnetList")
        /\ HasChild(root.children[p[1]].children[p[2]].children[p[3]], p[4], "MnetRecord")
        /\ LET a == root.children[p[1]].children[p[2]].children[p[3]].children[p[4]].attrib
           IN /\ "Group" \in DOMAIN a /\ a["Group"] # <<>>
              /\ "GroupNameWeb" \in DOMAIN a /\ a["GroupNameWeb"] # <<>> }

RecordAt(root, p) ==
    root.children[p[1]].children[p[2]].children[p[3]].children[p[4]]

DiscoveryAnswered(o) ==
    /\ o.name = "getDevicesAsync"
    /\ o.pc \in {"finally", "returned"}
    /\ o.event.kind = "frame"
    /\ o.event.frame.wellFormed

\* C11: for every discovery response, getDevicesAsync returns one
\* descriptor {id, name} for each MnetRecord of the list that has both Group
\* and GroupNameWeb set, in document order, and nothing else: a record
\* without either attribute (or with an empty one) is left out, and a
\* response without records gives the empty list and no error.
C11_DescriptorPerCompleteRecord ==
    \A t \in Tasks :
        DiscoveryAnswered(op[t]) =>
            LET root == op[t].event.frame.root
                listed == ListedRecords(root)
                groupList == op[t].result.value
            IN /\ ~op[t].result.raised
               /\ Len(groupList) = Cardinality(listed)
               /\ \A p \in listed :
                    LET n == Cardinality({q \in listed : Before(q, p)}) + 1
                    IN groupList[n] = [id |-> RecordAt(root, p).attrib["Group"],
                                       name |-> RecordAt(root, p).attrib["GroupNameWeb"]]

C11_Witness ==
    \E t \in Tasks :
        /\ DiscoveryAnswered(op[t])
        /\ op[t].pc = "returned"
        /\ op[t].event.frame.root =
             DiscoveryDoc(<<MnetRecord([Group |-> <<"6">>, GroupNameWeb |-> <<"B">>]),
                            MnetRecord([Group |-> <<"1">>, GroupNameWeb |-> <<"L">>])>>)
        /\ op[t].result.value = << [id |-> <<"6">>, name |-> <<"B">>],
                                   [id |-> <<"1">>, name |-> <<"L">>] >>

DiscoveryFailed(o) ==
    /\ o.name = "getDevicesAsync"
    /\ o.pc \in {"finally", "returned"}
    /\ \/ o.event.kind \in {"connect_failed", "send_failed", "closed", "timeout"}
       \/ o.event.kind = "frame" /\ ~o.event.frame.wellFormed

\* C12: getDevicesAsync raises, and returns no list, when the connection
\* cannot be opened, the response times out or the response is not XML; an
\* async_setup_entry whose discovery raised adds no entity and does not
\* raise.
C12_DiscoveryFailureRaisesSetupSurvives ==
    \A t \in Tasks :
        /\ DiscoveryFailed(op[t]) =>
              (op[t].result.raised /\ op[t].result.value = None)
        /\ (DiscoveryFailed(op[t]) /\ setup.pc = "done" /\ call[t] = "none") =>
              (setup.added = <<>> /\ ~setup.raised)

C12_Witness ==
    \E t \in Tasks :
        /\ DiscoveryFailed(op[t])
        /\ op[t].event.kind = "timeout"
        /\ op[t].result.raised
        /\ setup.pc = "done"
        /\ call[t] = "none"
        /\ setup.added = <<>>

\* the <Mnet> nodes directly under a <DatabaseManager> of the root
DetailNodes(root) ==
    { p \in Positions \X Positions :
        /\ HasChild(root, p[1], "DatabaseManager")
        /\ HasChild(root.children[p[1]], p[2], "Mnet") }

DetailAnswered(o) ==
    /\ o.name = "getDeviceInfoAsync"
    /\ o.pc \in {"finally", "returned"}
    /\ o.event.kind = "frame"
    /\ o.event.frame.wellFormed

\* C13: for every detail response, getDeviceInfoAsync returns the attribute
\* map of the first Mnet node directly under DatabaseManager: every
\* attribute of that node and no other, each with the string it has in the
\* response; when there is no such node it returns the empty map.
C13_AttributesOfFirstNode ==
    \A t \in Tasks :
        DetailAnswered(op[t]) =>
            LET root == op[t].event.frame.root
                nodes == DetailNodes(root)
                info == op[t].result.value
            IN /\ ~op[t].result.raised
               /\ nodes = {} => DOMAIN info = {}
               /\ nodes # {} =>
                    LET p == CHOOSE q \in nodes : \A r \in nodes : r = q \/ Before(q, r)
                        node == root.children[p[1]].children[p[2]]
                    IN /\ DOMAIN info = DOMAIN node.attrib
                       /\ \A k \in DOMAIN info : info[k] = node.attrib[k]

C13_Witness ==
    \E t \in Tasks :
        /\ DetailAnswered(op[t])
        /\ op[t].pc = "returned"
        /\ Cardinality(DetailNodes(op[t].event.frame.root)) = 2
        /\ op[t].result.value = [Mode |-> sCOOL, SetTemp1 |-> s24_0]

\* the true age of the snapshot: seconds since the read that brought it
SnapshotAge == now - dev.fetched_at

\* the method in flight is at _get_info and takes its step
AtGetInfo == Running(acc) /\ acc' # acc

\* C14 as stated: a _get_info is answered from the snapshot, with no device
\* read, exactly when the snapshot is non-empty and its age is at most the
\* lease.
C14_CachedExactlyWithinLease ==
    [][AtGetInfo =>
         ((acc'.wait # "read") <=>
            (DOMAIN dev._attributes # {} /\ SnapshotAge <= InfoLeaseSeconds))]_vars

\* C14, amended: a _get_info is answered from the snapshot, with no device
\* read and the snapshot left as it is, exactly when the snapshot is
\* non-empty, its age is at most the lease and no verified write has been made
\* since it was read; otherwise the method awaits one device read, whose
\* return replaces the snapshot, restarts its age and answers the method.
C14_CachedWithinLeaseUnlessWritten ==
    [][/\ AtGetInfo =>
            /\ (acc'.wait # "read") <=>
                 (/\ DOMAIN dev._attributes # {}
                  /\ SnapshotAge <= InfoLeaseSeconds
                  /\ ~dev.written)
            /\ acc'.wait # "read" => acc'.served = "cache"
            /\ dev' = dev
       /\ (acc.wait = "read" /\ acc' # acc) =>
            /\ acc'.wait # "read"
            /\ acc'.served = "network"
            /\ dev'.fetched_at = now
            /\ ~dev'.written
            /\ acc'.value = Get(dev', acc.key, AccessDefault(acc.key))]_vars

\* getTargetTemperature has had its getMode answered from a snapshot that is
\* as old as the lease
C14_Witness ==
    /\ acc.method = "getTargetTemperature"
    /\ acc.pc = "get"
    /\ acc.served = "cache"
    /\ SnapshotAge = InfoLeaseSeconds
    /\ DOMAIN dev._attributes # {}

\* C15: when the device read a _get_info awaits fails, the snapshot read
\* before stays in place and the accessor returns its value from it.
C15_FailedReadKeepsSnapshot ==
    [][(acc.wait = "read" /\ acc' # acc /\ acc'.read_failed) =>
         /\ dev'._attributes = dev._attributes
         /\ acc'.value = Get(dev, acc.key, AccessDefault(acc.key))]_vars

\* the values getMode can return: a reported Mode, or AUTO for none
ModeValues == {sHEAT, sCOOL, sDRY, sFAN, sAUTO, sHeatLower}

\* C19: getTargetTemperature reads, and setTemperature writes, SetTemp2
\* exactly when getMode returned HEAT and SetTemp1 for every other value;
\* one setTemperature writes exactly one key, the one getTargetTemperature
\* reads for the same mode.
C19_SetpointKeyByMode ==
    /\ \A mode \in ModeValues :
         /\ SetTemperatureKey(mode) = (IF mode = sHEAT THEN "SetTemp2" ELSE "SetTemp1")
         /\ GetTargetTemperatureKey(mode) = SetTemperatureKey(mode)
    /\ (acc.method = "setTemperature" /\ acc.pc \in {"write", "done"}) =>
         /\ acc.pc = "write" => acc.mode = Get(dev, "Mode", sAUTO)
         /\ DOMAIN acc.attributes = {acc.key}
         /\ acc.key = (IF acc.mode = sHEAT THEN "SetTemp2" ELSE "SetTemp1")
         /\ acc.key = GetTargetTemperatureKey(acc.mode)
    /\ (acc.method = "getTargetTemperature" /\ acc.pc \in {"get", "done"}) =>
         /\ acc.key = (IF acc.mode = sHEAT THEN "SetTemp2" ELSE "SetTemp1")
         /\ acc.pc = "done" => acc.value = Get(dev, acc.key, None)

\* setTemperature writes the heating setpoint, and only it, for a unit in HEAT
C19_Witness ==
    /\ acc.method = "setTemperature"
    /\ acc.pc = "write"
    /\ Get(dev, "Mode", sAUTO) = sHEAT
    /\ acc.attributes = [SetTemp2 |-> FloatValue(2200)]

\* a write of the command in flight returns; the part of the command it
\* belongs to (the single setpoint, the range, or the whole of any other
\* command) ends with it
WriteReturns == cmd.wait = "write" /\ cmd' # cmd

PartEnds == WriteReturns /\ (cmd.pc = "t_write" \/ cmd'.pc = "done")

\* C16: a command changes what the entity displays only when every write it
\* issued was confirmed: nothing displayed changes before its last write
\* has returned, and nothing at all when one of its writes reported failure.
\* Setting the single setpoint and setting the range are two commands, also
\* when one call of async_set_temperature carries both.
C16_DisplayChangesOnlyWhenConfirmed ==
    [][/\ (cmd' # cmd /\ ~PartEnds) => ChangedDisplay(ent, ent') = {}
       /\ (PartEnds /\ (cmd.failed \/ ~cmd'.last_result)) =>
            ChangedDisplay(ent, ent') = {}]_vars

\* the range was set while the entity displayed one (HEAT_COOL): the upper
\* setpoint was confirmed, the lower was not, and the displayed range is
\* still the one the poll read
C16_Witness ==
    /\ cmd.name = "async_set_temperature"
    /\ cmd.pc = "done"
    /\ cmd.high_success
    /\ ~cmd.low_success
    /\ Displayed(ent).hvac_mode = "heat_cool"
    /\ Displayed(ent).target_temperature_high = Float(2400)
    /\ Displayed(ent).target_temperature_low = Float(2000)

\* C17: a poll all of whose device reads failed has changed nothing of what
\* the entity displays.
C17_FailedPollLeavesDisplay ==
    (upd.pc = "done" /\ ~upd.skipped /\ ~upd.delivered) => upd.changed = {}

\* C18: while less than 15 s have passed since the adapter issued the write
\* for a field it then set, no step of async_update changes that field.
C18_NoOverwriteWithinGrace ==
    [][(upd' # upd /\ now - cmd.issued_at < IgnoreUpdatesDuration) =>
         \A field \in cmd.set_fields : ent'[field] = ent[field]]_vars

\* C20: whenever the authentication check of the step "user" reported
\* failure, the form shown next carries the error invalid_auth.
C20_AuthFailureIsInvalidAuth ==
    (flow.pc = "form" /\ flow.auth_success = "False") =>
        flow.result = FlowResult("form", "user", [base |-> "invalid_auth"])

RoundFailed(s) ==
    \/ ~s.success
    \/ s.read /\ (DOMAIN s.device_info = {} \/ VerificationFailed(s.attributes, s.device_info))

VerifyStep(t) ==
    /\ sv[t].pc = "Sending" => sv'[t].pc = "AwaitSend"
    /\ sv[t].pc = "AwaitSend" => sv'[t].pc \in {"Settling", "RetryDelay", "done"}
    /\ sv[t].pc = "Settling" => sv'[t].pc = "Verifying"
    /\ sv[t].pc = "Verifying" => sv'[t].pc \in {"RetryDelay", "done"}
    /\ sv[t].pc = "RetryDelay" => sv'[t].pc = "Sending"
    /\ sv[t].pc = "done" => sv'[t].pc = "idle"
    /\ sv'[t].reads > sv[t].reads =>
         /\ sv[t].pc = "Settling"
         /\ sv[t].success
         /\ ~sv[t].read
         /\ sv[t].sends = sv[t].attempt + 1
         /\ sv[t].reads <= sv[t].attempt
         /\ sv'[t].reads = sv[t].reads + 1
    /\ sv'[t].sends > sv[t].sends =>
         /\ sv[t].pc = "Sending"
         /\ sv[t].sends = sv[t].attempt
         /\ sv'[t].sends = sv[t].attempt + 1
         /\ sv[t].attempt >= 1 => RoundFailed(sv[t])

\* C22: a round of sendAndVerifyAsync goes from its send to the settle
\* delay to the read-back and never otherwise: the read-back is issued only
\* from the settle delay of the same round, after its send was accepted; the
\* send of a new round is issued only after the round before ended in
\* failure; and the operation ends only by returning True or False, False
\* only when the round that failed was the last of the budget.
C22_RoundOrder ==
    /\ [][\A t \in Tasks : sv'[t] # sv[t] => VerifyStep(t)]_vars
    /\ [](\A t \in Tasks :
            /\ sv[t].pc \in {"idle", "Sending", "AwaitSend", "Settling",
                              "Verifying", "RetryDelay", "done"}
            /\ (sv[t].pc = "done" /\ sv[t].result) => ~RoundFailed(sv[t])
            /\ (sv[t].pc = "done" /\ ~sv[t].result) =>
                  /\ sv[t].sends = sv[t].max_retries
                  /\ sv[t].max_retries >= 1 =>
                        (RoundFailed(sv[t]) /\ sv[t].attempt = sv[t].max_retries - 1))

\* the read-back of a second round is under way
C22_Witness ==
    \E t \in Tasks :
        /\ sv[t].pc = "Verifying"
        /\ sv[t].attempt = 1
        /\ sv[t].success
        /\ sv[t].reads = 2

\* how far an entity command is from its return: the writes it may still
\* issue, then the rounds and the position in the round of the
\* sendAndVerifyAsync it awaits, then the position in the client operation
RemainingOfOperation(o) ==
    CASE o.pc = "idle" -> 5
      [] o.pc = "connect" -> 4
      [] o.pc = "send" -> 3
      [] o.pc = "recv" -> 2
      [] o.pc = "finally" -> 1
      [] o.pc = "returned" -> 0

RemainingOfVerify(s) ==
    CASE s.pc = "idle" -> 6 * DefaultMaxRetries + 6
      [] s.pc = "done" -> 0
      [] OTHER -> 6 * (s.max_retries - s.attempt)
                  + (CASE s.pc = "Sending" -> 5
                       [] s.pc = "AwaitSend" -> 4
                       [] s.pc = "Settling" -> 3
                       [] s.pc = "Verifying" -> 2
                       [] s.pc = "RetryDelay" -> 1)

RemainingOfCommand(c) ==
    CASE c.pc = "idle" -> 6
      [] c.pc = "t_mode" -> IF c.wait = "no" THEN 5 ELSE 4
      [] c.pc = "t_write" -> 3
      [] c.pc \in {"r_high", "on_write"} -> 2
      [] c.pc = "done" -> 0
      [] OTHER -> 1

Remaining ==
    (RemainingOfCommand(cmd) * 100 + RemainingOfVerify(sv[1])) * 10
    + RemainingOfOperation(op[1])

\* C23: whatever the network and the controller do to an exchange (refused
\* connection, failed send, close, timeout, a frame that is not XML, an
\* Error element), sendAsync returns True or False and getDeviceInfoAsync
\* returns an attribute map, empty after a failure, and neither raises;
\* every entity command that was started runs to its return, through every
\* sendAndVerifyAsync it awaits: each step brings it nearer (a measure that
\* is bounded below decreases), short of the return it can always take a
\* step, and at the return its in-flight flag is cleared.
C23_NoFailureEscapes ==
    /\ [](\A t \in {1} :
            (op[t].pc \in {"finally", "returned"}
               /\ op[t].name \in {"sendAsync", "getDeviceInfoAsync"}) =>
                /\ ~op[t].result.raised
                /\ op[t].name = "sendAsync" => op[t].result.value \in BOOLEAN
                /\ (op[t].name = "getDeviceInfoAsync" /\ ReadFailed(op[t].event)) =>
                      op[t].result.value = EmptyDict)
    /\ [][Remaining' < Remaining]_vars
    /\ [](cmd.pc \notin {"idle", "done"} => ENABLED NextHost)
    /\ [](cmd.pc = "done" => ~SettingValues(ent))

\* async_set_temperature has returned after the read of its getMode failed
\* and its write was reported as failed
C23_Witness ==
    /\ cmd.name = "async_set_temperature"
    /\ cmd.pc = "done"
    /\ cmd.read_failed
    /\ cmd.failed

\* round(x) of x = h hundredths, h >= 0: the nearest whole number, the even
\* one of two that are as near
RoundWhole(h) ==
    LET whole == h \div 100
        rest == h % 100
    IN IF rest > 50 \/ (rest = 50 /\ whole % 2 = 1) THEN (whole + 1) * 100
       ELSE whole * 100

\* the setpoint the controller reported
ReportedSetpoint == ToFloat(dev._attributes[GetTargetTemperatureKey(dev._attributes["Mode"])])

\* C24: for every whole number c of degrees Celsius from 16 to 30,
\* fahrenheit_to_celsius(celsius_to_fahrenheit(c)) rounds to c; and an entity
\* that shows a setpoint in Fahrenheit and is asked to set the value it
\* shows writes to the device the Celsius value the controller reported, and
\* then shows the same value as before (checked for every tenth of a degree
\* from 16 to 30).
C24_FahrenheitRoundTrip ==
    /\ \A c \in MinTempC..MaxTempC :
         RoundWhole(fahrenheit_to_celsius(celsius_to_fahrenheit(Float(100 * c)))[1])
           = RoundWhole(100 * c)
    /\ cmd.pc = "t_mode" =>
         cmd.kwargs["temperature"] = celsius_to_fahrenheit(ReportedSetpoint)[1]
    /\ cmd.pc = "t_write" =>
         cmd.attributes =
           [k \in {GetTargetTemperatureKey(dev._attributes["Mode"])} |->
              FloatValue(ReportedSetpoint[1])]
    /\ (cmd.pc = "done" /\ cmd.success) =>
         /\ ent._target_temperature = ReportedSetpoint
         /\ Displayed(ent).target_temperature = celsius_to_fahrenheit(ReportedSetpoint)

\* 16 degrees Celsius, shown as 60.8 degrees Fahrenheit, are written back as
\* 16.0 to a unit in HEAT
C24_Witness ==
    /\ cmd.pc = "t_write"
    /\ cmd.kwargs["temperature"] = 6080
    /\ cmd.attributes = [SetTemp2 |-> FloatValue(1600)]

\* the table of HVAC modes by the Mode value of the controller: HEAT, COOL,
\* DRY, FAN and AUTO, and everything else as AUTO
ModeImage(mode) ==
    CASE mode = sHEAT -> "heat"
      [] mode = sCOOL -> "cool"
      [] mode = sDRY -> "dry"
      [] mode = sFAN -> "fan_only"
      [] mode = sAUTO -> "heat_cool"
      [] OTHER -> "heat_cool"

\* the poll gets the answer of isPowerOn, and of the getMode it shows
PollFindsPower == upd.pc = "power" /\ upd' # upd /\ upd'.wait = "no"

PollFindsMode == upd.pc = "mode" /\ upd'.pc = "done" /\ upd.wait = "read"

PollReachesMode == upd.pc = "mode" /\ upd' # upd /\ upd.wait = "no"

\* a poll that found the unit on and is outside the mode grace window shows
\* the image of the Mode value it reads (AUTO when there is none)
PollShowsModeImage ==
    /\ (PollReachesMode /\ ~ShouldIgnoreUpdates(ent, "mode", now)
           /\ ~NeedsRefresh(dev, now)) =>
         Displayed(ent').hvac_mode = ModeImage(Get(dev, "Mode", sAUTO))
    /\ PollFindsMode =>
         Displayed(ent').hvac_mode = ModeImage(Get(dev', "Mode", sAUTO))

\* C25 as stated: a poll that finds the unit on outside the
\* mode grace window shows the image of Mode, and a poll that finds Drive
\* not equal to ON shows OFF.
C25_PollFindingOffShowsOff ==
    [][/\ PollShowsModeImage
       /\ (PollFindsPower /\ Get(dev', "Drive", sOFF) # sON) =>
            Displayed(ent').hvac_mode = "off"]_vars

\* C25, amended: a poll that finds the unit on and is outside the mode grace window
\* shows the image of the Mode value it reads: HEAT as HEAT, COOL as COOL,
\* DRY as DRY, FAN as FAN_ONLY, AUTO and every absent or unknown value as
\* HEAT_COOL. A poll that finds Drive not equal to ON shows OFF when it is
\* outside the mode grace window, and leaves the displayed mode as it was
\* when it is inside.
C25_PollShowsModeOutsideGrace ==
    [][/\ PollShowsModeImage
       /\ (PollFindsPower /\ Get(dev', "Drive", sOFF) # sON) =>
            Displayed(ent').hvac_mode =
              IF ShouldIgnoreUpdates(ent, "mode", now) THEN Displayed(ent).hvac_mode
              ELSE "off"]_vars

\* a poll has read DRY from a running unit and shows DRY instead of what it
\* showed before
C25_Witness ==
    /\ upd.pc = "done"
    /\ ~upd.skipped
    /\ "hvac_mode" \in upd.changed
    /\ Get(dev, "Drive", sOFF) = sON
    /\ Get(dev, "Mode", sAUTO) = sDRY
    /\ Displayed(ent).hvac_mode = "dry"

\* the four in-progress flags of the entity
SettingFlags ==
    {"_setting_temperature", "_setting_mode", "_setting_fan", "_setting_swing"}

FlagsSet(e) == {f \in SettingFlags : e[f]}

PollStarts == upd.pc = "idle" /\ upd'.pc # "idle"

\* C26: an async_update that starts while an in-progress flag of a command is
\* set returns at once: it awaits no device read, and it leaves every field
\* of the entity and the snapshot of the device as they are. A poll that
\* returned so has read nothing and changed nothing that is displayed.
C26_PollSkippedWhileSetting ==
    /\ [][(PollStarts /\ FlagsSet(ent) # {}) =>
            /\ upd'.pc = "done"
            /\ upd'.wait = "no"
            /\ upd'.skipped
            /\ ent' = ent
            /\ dev' = dev
            /\ clientVars' = clientVars]_vars
    /\ [](upd.skipped =>
            /\ upd.pc = "done"
            /\ ~upd.delivered
            /\ ~upd.read_failed
            /\ upd.changed = {})

\* a poll has returned at once while the write of async_set_swing_mode is
\* awaited
C26_Witness ==
    /\ upd.skipped
    /\ cmd.name = "async_set_swing_mode"
    /\ cmd.wait = "write"
    /\ FlagsSet(ent) = {"_setting_swing"}

CommandInFlight == cmd.pc \notin {"idle", "done"}

\* C27: a command clears its in-progress flag on every way out (its write
\* verified, its write reported as failed, a call it awaits raising), so
\* whenever no command is in flight the four in-progress flags are false,
\* and an async_update that starts then is not skipped: it goes on to read
\* the device.
C27_FlagsClearedOnEveryExit ==
    /\ [](~CommandInFlight => FlagsSet(ent) = {})
    /\ [][(CommandInFlight /\ ~CommandInFlight') => FlagsSet(ent') = {}]_vars
    /\ [][(PollStarts /\ ~CommandInFlight) =>
            /\ ~upd'.skipped
            /\ upd'.pc = "refresh"
            /\ upd'.wait = "read"]_vars

\* a command has ended by an exception, and the poll started after it has
\* read the device
C27_Witness ==
    /\ cmd.pc = "done"
    /\ cmd.raised
    /\ FlagsSet(ent) = {}
    /\ upd.pc = "done"
    /\ ~upd.skipped
    /\ upd.delivered

\* a step of async_set_hvac_mode called with a mode other than OFF
SetModeStep ==
    /\ cmd' # cmd
    /\ cmd'.name = "async_set_hvac_mode"
    /\ cmd.arg # "off"
    /\ cmd.pc # "off_write" /\ cmd'.pc # "off_write"

\* C28: async_set_hvac_mode with a mode other than OFF first issues the
\* verified write of Drive = ON, and issues the write of Mode only when that
\* one was verified. It changes the displayed mode and _last_hvac_mode only
\* when the write of Mode was verified too, to the mode asked for. When the
\* power-on was verified and the write of Mode failed, the command leaves
\* both as they were, ends without success and resets its timestamp.
C28_ModeShownAfterBothVerified ==
    [][SetModeStep =>
         /\ cmd.pc = "idle" =>
              /\ cmd'.pc = "on_write"
              /\ cmd'.wait = "write"
              /\ cmd'.attributes = [Drive |-> StrValue(sON)]
         /\ cmd'.pc = "mode_write" =>
              /\ cmd.pc = "on_write"
              /\ cmd'.last_result
              /\ cmd'.power_success
              /\ cmd'.attributes \in
                   { [Mode |-> StrValue(m)] : m \in {sHEAT, sCOOL, sDRY, sFAN, sAUTO} }
              /\ ModeImage(cmd'.attributes["Mode"].s) = cmd.arg
         /\ (cmd.pc = "on_write" /\ ~cmd'.last_result) => cmd'.pc = "done"
         /\ (ent'._hvac_mode # ent._hvac_mode \/ ent'._last_hvac_mode # ent._last_hvac_mode) =>
              /\ cmd.pc = "mode_write"
              /\ cmd'.power_success /\ cmd'.mode_success /\ cmd'.last_result
         /\ (cmd'.pc = "done" /\ cmd'.power_success /\ cmd'.mode_success) =>
              /\ Displayed(ent').hvac_mode = cmd.arg
              /\ ent'._last_hvac_mode = cmd.arg
              /\ cmd'.success
         /\ (cmd'.pc = "done" /\ cmd'.power_success /\ ~cmd'.mode_success) =>
              /\ cmd.pc = "mode_write"
              /\ Displayed(ent').hvac_mode = Displayed(ent).hvac_mode
              /\ ent'._last_hvac_mode = ent._last_hvac_mode
              /\ ~cmd'.success
              /\ cmd'.failed
              /\ ent'._last_mode_set_time = 0]_vars

\* the unit was shown as off, async_set_hvac_mode had its power-on verified
\* and its write of Mode refused: the entity still shows off
C28_Witness ==
    /\ cmd.name = "async_set_hvac_mode"
    /\ cmd.pc = "done"
    /\ cmd.power_success
    /\ ~cmd.mode_success
    /\ cmd.failed
    /\ Displayed(ent).hvac_mode = "off"
    /\ ent._last_mode_set_time = 0

\* the HVAC modes other than OFF
RunningModes == {"heat", "cool", "dry", "fan_only", "heat_cool"}

\* async_turn_on returns from a verified powerOn
TurnOnVerified ==
    /\ cmd.name = "async_turn_on"
    /\ cmd.pc = "pon_write"
    /\ cmd'.pc = "done"
    /\ cmd'.success

\* C29: _last_hvac_mode is always one of HEAT, COOL, DRY, FAN_ONLY and
\* HEAT_COOL, never OFF; an async_turn_on whose power-on was verified shows
\* that mode, so it does not leave the entity showing OFF.
C29_LastModeNeverOff ==
    /\ [](ent._last_hvac_mode \in RunningModes)
    /\ [][TurnOnVerified =>
            /\ Displayed(ent').hvac_mode = ent._last_hvac_mode
            /\ Displayed(ent').hvac_mode # "off"]_vars

\* async_turn_on of a new entity has had its power-on verified and has
\* brought the display from OFF to COOL, the last mode of a new entity
C29_Witness ==
    /\ cmd.name = "async_turn_on"
    /\ cmd.pc = "done"
    /\ cmd.success
    /\ cmd.set_fields = {"_hvac_mode"}
    /\ upd.pc = "idle"
    /\ Displayed(ent).hvac_mode = "cool"
    /\ ent._last_hvac_mode = "cool"

\* a command has returned with the last of its writes reported as failed,
\* or by an exception
CommandFailed == cmd.pc = "done" /\ cmd.failed

\* the poll gets the answer of the accessor it is at
PollGets(pc) == upd.pc = pc /\ upd' # upd /\ upd'.wait = "no"

\* the poll assigns from the attributes of the device the fields that the
\* command of that kind sets
PollTakesFromDevice(kind) ==
    CASE kind = "temp" ->
           /\ PollGets("power") =>
                IF Get(dev', "Drive", sOFF) = sON THEN upd'.pc = "tmode"
                ELSE /\ ent'._target_temperature = NoFloat
                     /\ ent'._target_temperature_high = NoFloat
                     /\ ent'._target_temperature_low = NoFloat
           /\ PollGets("tget") =>
                ent'._target_temperature =
                  ToFloat(Get(dev', GetTargetTemperatureKey(upd.mode), None))
           /\ PollGets("high") =>
                ent'._target_temperature_high = ToFloat(Get(dev', "SetTemp1", None))
           /\ PollGets("low") =>
                ent'._target_temperature_low = ToFloat(Get(dev', "SetTemp2", None))
      [] kind = "mode" ->
           /\ (PollGets("power") /\ Get(dev', "Drive", sOFF) # sON) =>
                ent'._hvac_mode = "off"
           /\ (upd.pc = "mode" /\ upd' # upd) =>
                \/ upd'.wait = "read"
                \/ ent'._hvac_mode = ModeImage(Get(dev', "Mode", sAUTO))
      [] kind = "fan" ->
           (upd.pc = "fan" /\ upd' # upd) =>
                \/ upd'.wait = "read"
                \/ ent'._fan_mode = Get(dev', "FanSpeed", None)
      [] kind = "swing" ->
           (upd.pc = "swing" /\ upd' # upd) =>
                \/ upd'.wait = "read"
                \/ ent'._swing_mode = Get(dev', "AirDirection", None)

\* C30: a command that fails, by a write reported as failed or by an
\* exception, leaves its timestamp at 0, not at the value an earlier command
\* of the same kind had set; it stays 0 while no other command is called, so
\* the async_update that starts then is not skipped, does not pass over the
\* fields of that kind and assigns them from what the device reports, also
\* less than 15 s after an earlier verified command of the same kind.
C30_FailureEndsGraceWindow ==
    /\ [](CommandFailed =>
            /\ LastSetTime(ent, KindOf(cmd.name)) = 0
            /\ ~ShouldIgnoreUpdates(ent, KindOf(cmd.name), now))
    /\ [][(PollStarts /\ CommandFailed) =>
            ~upd'.skipped /\ upd'.after_failure]_vars
    /\ [][(upd.after_failure /\ upd' # upd) =>
            PollTakesFromDevice(KindOf(cmd.name))]_vars

\* async_turn_off was verified, async_turn_on called less than 15 s later
\* failed, and the poll started after it, still less than 15 s after the
\* first call, has read a running unit and shows its mode
C30_Witness ==
    /\ CommandFailed
    /\ cmd.name = "async_turn_on"
    /\ cmd.earlier # <<>>
    /\ cmd.earlier[1].name = "async_turn_off"
    /\ now - cmd.earlier[1].at < IgnoreUpdatesDuration
    /\ upd.pc = "done"
    /\ upd.after_failure
    /\ "hvac_mode" \in upd.changed
    /\ Displayed(ent).hvac_mode = "fan_only"

\* the poll calls _get_info
PollCallsGetInfo == upd'.gets = upd.gets + 1

\* the accessors async_update calls when the unit is not reported as on and
\* nothing was set recently: getRoomTemperature, getFanSpeed, getSwingMode,
\* isPowerOn
AccessorsOfFailedPoll ==
    Cardinality({"getRoomTemperature", "getFanSpeed", "getSwingMode", "isPowerOn"})

\* C31: while the snapshot is empty the lease does not apply: a _get_info
\* called then awaits a device read, however recent the last read is. So an
\* async_update none of whose reads returns attributes awaits one read for
\* the refresh it starts with and one for every accessor it calls, not one
\* read in all.
C31_EmptySnapshotAlwaysRefetched ==
    /\ [][(PollCallsGetInfo /\ DOMAIN dev._attributes = {}) =>
            /\ upd'.wait = "read"
            /\ upd'.reads = upd.reads + 1]_vars
    /\ [][(upd.wait = "read" /\ upd'.wait = "no" /\ DOMAIN dev'._attributes = {}) =>
            /\ dev'._last_info_time_s = now
            /\ NeedsRefresh(dev', now)]_vars
    /\ []((cmd.pc = "idle" /\ upd.pc # "idle" /\ ~upd.skipped /\ ~upd.delivered) =>
            /\ upd.reads = 1 + upd.gets
            /\ upd.pc = "done" => upd.gets = AccessorsOfFailedPoll)

\* a poll of a controller that does not answer has returned in the second
\* it started in: it has called four accessors and awaited five reads
C31_Witness ==
    /\ cmd.pc = "idle"
    /\ upd.pc = "done"
    /\ ~upd.skipped
    /\ ~upd.delivered
    /\ upd.read_failed
    /\ upd.gets = AccessorsOfFailedPoll
    /\ upd.reads = AccessorsOfFailedPoll + 1
    /\ DOMAIN dev._attributes = {}
    /\ dev._last_info_time_s = now

\* the form of the step "user" shown again with an error
UserFormWithError(f) ==
    /\ f.pc = "form"
    /\ f.result.type = "form"
    /\ f.result.step_id = "user"
    /\ f.result.errors # EmptyDict

EntryCreated(f) == f.result.type = "create_entry" \/ f.entry # EmptyDict

\* C32: the flow creates a config entry only after the authentication check
\* succeeded and, after that, discovery returned at least one device: the
\* discovery is called only once the check has succeeded, the entry is
\* created only from the form of the step "device_names", which is shown
\* only for a non-empty discovery. When the check fails, the discovery
\* raises or returns no device, the form of the step "user" is shown again
\* with an error and no entry is created.
C32_EntryAfterAuthThenDiscovery ==
    /\ [](EntryCreated(flow) =>
            /\ flow.auth_success = "True"
            /\ flow.devices # <<>>
            /\ flow.discovered_devices = flow.devices)
    /\ []((flow.result.type = "form" /\ flow.result.step_id = "device_names") =>
            /\ flow.auth_success = "True"
            /\ flow.devices # <<>>)
    /\ [](flow.pc = "getDevices" => flow.auth_success = "True" /\ flow.devices = <<>>)
    /\ [](flow.pc = "authenticate" => flow.auth_success = "none" /\ flow.devices = <<>>)
    /\ [](UserFormWithError(flow) => ~EntryCreated(flow))
    /\ [][/\ (flow.pc = "authenticate" /\ flow' # flow) =>
              IF flow'.auth_success = "True" THEN flow'.pc = "getDevices"
              ELSE flow'.auth_success = "False" /\ UserFormWithError(flow')
        /\ (flow.pc = "getDevices" /\ flow' # flow) =>
              IF flow'.devices # <<>>
              THEN flow'.result = FlowResult("form", "device_names", EmptyDict)
              ELSE UserFormWithError(flow')
        /\ (EntryCreated(flow') /\ ~EntryCreated(flow)) =>
              /\ flow.pc = "form"
              /\ flow.result.step_id = "device_names"]_vars

\* the entry has been created for two discovered devices, the first under
\* the name the user gave it
C32_Witness ==
    /\ flow.pc = "finished"
    /\ flow.result.type = "create_entry"
    /\ flow.auth_success = "True"
    /\ Len(flow.devices) = 2
    /\ flow.entry.device_names["1"] = "Hall"

====
